---- MODULE Spec2Model ----
(***************************************************************************)
(* Model of the Gamba card-game server (UPS_Chlad/server): the card rules  *)
(* (GameRules), the per-room game engine (GameLogic), the player and room  *)
(* registries (PlayerManager, RoomManager) and the request handlers        *)
(* (MessageHandler / GameManager).                                         *)
(*                                                                         *)
(* Indices are kept as in the C++ code (0-based); a TLA+ sequence element  *)
(* i of the code is element i+1 of the sequence.                           *)
(***************************************************************************)
EXTENDS Integers, Sequences, FiniteSets, TLC

VARIABLES
    players,            \* PlayerManager::players          name -> record / NoPlayer
    socket_to_player,   \* PlayerManager::socket_to_player socket -> name / ""
    player_last_ping,   \* PlayerManager::player_last_ping name -> "now" / "earlier"
    rooms,              \* RoomManager::rooms              room id -> Room / NoRoom
    next_room_id,       \* RoomManager::next_room_id
    rooms_mutex,        \* RoomManager::rooms_mutex: 0 free, s held for ever by worker s
    blocked,            \* sockets whose worker never returns from a lock()
    burned,             \* cards removed from play by discardPile.clear(), per room
    lastReq,            \* the request the last step processed
    replies,            \* the reply batch the last step returned
    moves,              \* number of room and game requests accepted so far
    probe,              \* inputs and result of a direct call of a rule function
    conn,               \* workers inside PlayerManager::connectPlayer
    cleanup_players,    \* heartbeatMonitorLoop: the expired players still to clean up
    unsent,             \* handleClient: responses of a worker not yet written
    delivered           \* the last GAME_STATE frame written to each socket

vars == <<players, socket_to_player, player_last_ping, rooms, next_room_id, rooms_mutex, blocked,
          burned, lastReq, replies, moves, probe, conn,
          cleanup_players, unsent, delivered>>

(***************************************************************************)
(* Bounds of the model.                                                    *)
(***************************************************************************)
MaxShuffles  == 2   \* shuffle outcomes considered by startGame
MaxMoves     == 4   \* accepted room and game requests per run
MaxRoomId    == 2   \* rooms created per run
MaxRuleSuits == 2   \* suits used when the rule functions are called directly

(***************************************************************************)
(* Cards.                                                                  *)
(***************************************************************************)
Suits == <<"H", "D", "C", "S">>

TWO   == 2
SEVEN == 7
TEN   == 10
JACK  == 11
QUEEN == 12
KING  == 13
ACE   == 14

Ranks == TWO..ACE

Card(s, r) == [suit |-> s, rank |-> r]

AllCards == {Card(Suits[i], r) : i \in 1..4, r \in Ranks}

getValue(card) == card.rank

\* std::vector helpers
back(v)     == v[Len(v)]
pop_back(v) == SubSeq(v, 1, Len(v) - 1)
SeqToSet(v) == {v[i] : i \in 1..Len(v)}

(***************************************************************************)
(* GameRules.                                                              *)
(***************************************************************************)
isWildCard(card)    == card.rank = TWO
\* no rank is the reverse card
isReverseCard_never(card) == FALSE

isReverseCard(card) == card.rank = SEVEN
\* no rank is the burn card
isBurnCard_never(card) == FALSE

isBurnCard(card)    == card.rank = TEN

isHigherOrEqual_strict(cardToPlay, topCard) == getValue(cardToPlay) > getValue(topCard)

isHigherOrEqual(cardToPlay, topCard) == getValue(cardToPlay) >= getValue(topCard)

canPlayOn(cardToPlay, topCard, mustPlaySevenOrLower) ==
    IF isWildCard(cardToPlay) THEN TRUE
    ELSE IF isWildCard(topCard) THEN TRUE
    ELSE IF mustPlaySevenOrLower THEN getValue(cardToPlay) <= 7
    ELSE IF isBurnCard(cardToPlay) THEN TRUE
    ELSE isHigherOrEqual(cardToPlay, topCard)

areMultipleCardsValid(cards) ==
    IF Len(cards) <= 1 THEN TRUE
    ELSE \A i \in 1..Len(cards) : cards[i].rank = cards[1].rank

isValidPlay(cardsToPlay, topCard, mustPlaySevenOrLower) ==
    IF Len(cardsToPlay) = 0 THEN FALSE
    ELSE IF Len(cardsToPlay) > 1 /\ ~areMultipleCardsValid(cardsToPlay) THEN FALSE
    ELSE \A i \in 1..Len(cardsToPlay) :
            canPlayOn(cardsToPlay[i], topCard, mustPlaySevenOrLower)

\* The loop of applySpecialCardEffects over cardsPlayed[i..]; st carries the
\* discard pile, the flag and the cards the clear() calls removed.
RECURSIVE applyEffectsFrom(_, _, _)
applyEffectsFrom(cardsPlayed, i, st) ==
    IF i > Len(cardsPlayed) THEN st
    ELSE LET card == cardsPlayed[i]
             s1 == IF isReverseCard(card)
                   THEN [st EXCEPT !.mustPlaySevenOrLower = TRUE] ELSE st
             s2 == IF isBurnCard(card)
                   THEN [s1 EXCEPT !.discardPile = <<>>,
                                   !.burned = s1.burned \o s1.discardPile]
                   ELSE s1
         IN applyEffectsFrom(cardsPlayed, i + 1, s2)

applySpecialCardEffects(cardsPlayed, discardPile) ==
    applyEffectsFrom(cardsPlayed, 1,
        [discardPile |-> discardPile, mustPlaySevenOrLower |-> FALSE, burned |-> <<>>])

(***************************************************************************)
(* CardDeck.                                                               *)
(***************************************************************************)
DeckSize == 8   \* cards built by initializeStandardDeck: a 2 and an Ace per suit

initializeStandardDeck ==
    [i \in 1..DeckSize |->
        Card(Suits[((i - 1) \div 2) + 1], IF i % 2 = 1 THEN TWO ELSE ACE)]

\* std::shuffle: outcome number k of the permutations considered.  Element i
\* of the result is element ((i-1)*m + o) mod n of the input, with m odd and
\* coprime to the deck size, so every outcome is a permutation.
ShuffleMult == <<1, 3, 5, 7>>

shuffle(cards, k) ==
    LET n == Len(cards)
        m == ShuffleMult[(k % 4) + 1]
        o == k \div 4
    IN [i \in 1..n |-> cards[(((i - 1) * m + o) % n) + 1]]

\* n calls of "if (!deck.isEmpty()) dst.push_back(deck.dealCard())"
RECURSIVE dealUpTo(_, _, _)
dealUpTo(deck, dst, n) ==
    IF n = 0 \/ Len(deck) = 0 THEN [dst |-> dst, deck |-> deck]
    ELSE dealUpTo(pop_back(deck), Append(dst, back(deck)), n - 1)

(***************************************************************************)
(* GameLogic: one game engine, as a record.                                *)
(***************************************************************************)
SIZE_MAX == 2147483647   \* "not found" result of getPlayerIndex

PlayerHand(id) == [playerId |-> id, hand |-> <<>>, reserves |-> <<>>]

GameLogic_new ==
    [deck |-> initializeStandardDeck,
     discardPile |-> <<>>,
     players |-> <<>>,
     currentPlayerIndex |-> 0,
     gameState |-> "WAITING_FOR_PLAYERS",
     clockwise |-> TRUE,
     mustPlaySevenOrLower |-> FALSE]

\* playerIndexMap is rebuilt from players whenever players changes, so the
\* lookup is a search of players.
getPlayerIndex(g, playerId) ==
    IF \E i \in 1..Len(g.players) : g.players[i].playerId = playerId
    THEN (CHOOSE i \in 1..Len(g.players) : g.players[i].playerId = playerId) - 1
    ELSE SIZE_MAX

isPlayerInGame(g, playerId) == getPlayerIndex(g, playerId) # SIZE_MAX

addPlayer(g, playerId) ==
    IF g.gameState # "WAITING_FOR_PLAYERS" THEN [ok |-> FALSE, g |-> g]
    ELSE IF isPlayerInGame(g, playerId) THEN [ok |-> FALSE, g |-> g]
    ELSE [ok |-> TRUE, g |-> [g EXCEPT !.players = Append(@, PlayerHand(playerId))]]

getPlayerHandSize(g, playerId) ==
    LET idx == getPlayerIndex(g, playerId)
    IN IF idx >= Len(g.players) THEN 0 ELSE Len(g.players[idx + 1].hand)

getPlayerReserveSize(g, playerId) ==
    LET idx == getPlayerIndex(g, playerId)
    IN IF idx >= Len(g.players) THEN 0 ELSE Len(g.players[idx + 1].reserves)

getPlayerHand(g, playerId) ==
    LET idx == getPlayerIndex(g, playerId)
    IN IF idx >= Len(g.players) THEN <<>> ELSE g.players[idx + 1].hand

getCurrentPlayer(g) ==
    IF g.currentPlayerIndex >= Len(g.players) THEN ""
    ELSE g.players[g.currentPlayerIndex + 1].playerId

\* The loop of dealInitialCards over players[i..]
RECURSIVE dealPlayersFrom(_, _, _)
dealPlayersFrom(ps, i, deck) ==
    IF i > Len(ps) THEN [players |-> ps, deck |-> deck]
    ELSE LET r == dealUpTo(deck, <<>>, 3)
             h == dealUpTo(r.deck, <<>>, 3)
         IN dealPlayersFrom(
                [ps EXCEPT ![i] = [@ EXCEPT !.reserves = r.dst, !.hand = h.dst]],
                i + 1, h.deck)

dealInitialCards(g) ==
    LET d == dealPlayersFrom(g.players, 1, g.deck)
        f == dealUpTo(d.deck, g.discardPile, 1)
    IN [g EXCEPT !.players = d.players, !.deck = f.deck, !.discardPile = f.dst]

\* GameLogic::startGame with shuffle outcome k; threw = the runtime_error
GameLogic_startGame(g, k) ==
    IF Len(g.players) < 2 THEN [threw |-> TRUE, g |-> g]
    ELSE [threw |-> FALSE,
          g |-> dealInitialCards(
                  [g EXCEPT !.gameState = "GAME_STARTED",
                            !.currentPlayerIndex = 0,
                            !.clockwise = TRUE,
                            !.mustPlaySevenOrLower = FALSE,
                            !.deck = shuffle(initializeStandardDeck, k),
                            !.discardPile = <<>>])]

drawCardsToHand(g, playerId) ==
    LET idx == getPlayerIndex(g, playerId)
    IN IF idx >= Len(g.players) THEN g
       ELSE LET have == Len(g.players[idx + 1].hand)
                d == dealUpTo(g.deck, g.players[idx + 1].hand,
                              IF have < 3 THEN 3 - have ELSE 0)
            IN [g EXCEPT !.players[idx + 1].hand = d.dst, !.deck = d.deck]

isPlayerTurn(g, playerId) ==
    IF g.gameState # "GAME_STARTED" THEN FALSE
    ELSE IF g.currentPlayerIndex >= Len(g.players) THEN FALSE
    ELSE g.players[g.currentPlayerIndex + 1].playerId = playerId

hasPlayerWon(g, playerId) ==
    LET idx == getPlayerIndex(g, playerId)
    IN IF idx >= Len(g.players) THEN FALSE
       ELSE Len(g.players[idx + 1].hand) = 0 /\ Len(g.players[idx + 1].reserves) = 0

\* the turn moves against the order of play
moveToNextValidPlayer_reversed(g) ==
    IF Len(g.players) = 0 THEN g
    ELSE [g EXCEPT !.currentPlayerIndex = IF @ = 0 THEN Len(g.players) - 1 ELSE @ - 1]

moveToNextValidPlayer(g) ==
    IF Len(g.players) = 0 THEN g
    ELSE IF g.clockwise
         THEN [g EXCEPT !.currentPlayerIndex = (@ + 1) % Len(g.players)]
         ELSE [g EXCEPT !.currentPlayerIndex =
                            IF @ = 0 THEN Len(g.players) - 1 ELSE @ - 1]

nextTurn(g) == moveToNextValidPlayer(g)

\* std::find_if over the hand: position of the first card equal to card, 0 if none
findInHand(hand, card) ==
    IF \E i \in 1..Len(hand) : hand[i] = card
    THEN CHOOSE i \in 1..Len(hand) :
            hand[i] = card /\ \A j \in 1..(i - 1) : hand[j] # card
    ELSE 0

eraseAt(v, i) == SubSeq(v, 1, i - 1) \o SubSeq(v, i + 1, Len(v))

\* "Remove cards from hand": for each card, erase its first occurrence if any
RECURSIVE removeFromHand(_, _, _)
removeFromHand(hand, cardsToPlay, i) ==
    IF i > Len(cardsToPlay) THEN hand
    ELSE LET at == findInHand(hand, cardsToPlay[i])
         IN removeFromHand(IF at # 0 THEN eraseAt(hand, at) ELSE hand,
                           cardsToPlay, i + 1)

\* "Validate cards are in player's hand": each card is looked up on its own
cardsInHand(hand, cardsToPlay) ==
    \A i \in 1..Len(cardsToPlay) : findInHand(hand, cardsToPlay[i]) # 0

GameLogic_playCards(g, playerId, cardsToPlay) ==
    LET rejected == [ok |-> FALSE, g |-> g, burned |-> <<>>]
        idx == getPlayerIndex(g, playerId)
    IN IF ~isPlayerTurn(g, playerId) \/ Len(cardsToPlay) = 0 THEN rejected
       ELSE IF idx >= Len(g.players) THEN rejected
       ELSE IF ~cardsInHand(g.players[idx + 1].hand, cardsToPlay) THEN rejected
       ELSE IF Len(g.discardPile) # 0
               /\ ~isValidPlay(cardsToPlay, back(g.discardPile), g.mustPlaySevenOrLower)
            THEN rejected
       ELSE LET hand1 == removeFromHand(g.players[idx + 1].hand, cardsToPlay, 1)
                eff == applySpecialCardEffects(cardsToPlay, g.discardPile \o cardsToPlay)
                g1 == [g EXCEPT !.players[idx + 1].hand = hand1,
                                !.discardPile = eff.discardPile,
                                !.mustPlaySevenOrLower = eff.mustPlaySevenOrLower]
                g2 == drawCardsToHand(g1, playerId)
            IN IF hasPlayerWon(g2, playerId)
               THEN [ok |-> TRUE, g |-> [g2 EXCEPT !.gameState = "GAME_FINISHED"],
                     burned |-> eff.burned]
               ELSE [ok |-> TRUE, g |-> nextTurn(g2), burned |-> eff.burned]

\* the pile is given to whoever asks, at the turn or not
GameLogic_pickupDiscardPile_anyone(g, playerId) ==
    LET idx == getPlayerIndex(g, playerId)
    IN IF Len(g.discardPile) = 0 \/ idx >= Len(g.players) THEN [ok |-> FALSE, g |-> g]
       ELSE [ok |-> TRUE,
             g |-> nextTurn([g EXCEPT !.players[idx + 1].hand = @ \o g.discardPile,
                                      !.discardPile = <<>>,
                                      !.mustPlaySevenOrLower = FALSE])]

GameLogic_pickupDiscardPile(g, playerId) ==
    LET idx == getPlayerIndex(g, playerId)
    IN IF ~isPlayerTurn(g, playerId) \/ Len(g.discardPile) = 0 THEN [ok |-> FALSE, g |-> g]
       ELSE IF idx >= Len(g.players) THEN [ok |-> FALSE, g |-> g]
       ELSE [ok |-> TRUE,
             g |-> nextTurn([g EXCEPT !.players[idx + 1].hand = @ \o g.discardPile,
                                      !.discardPile = <<>>,
                                      !.mustPlaySevenOrLower = FALSE])]

(***************************************************************************)
(* Card strings of the protocol, as sequences of characters.               *)
(***************************************************************************)
DigitChars == <<"0", "1", "2", "3", "4", "5", "6", "7", "8", "9">>

isDigit(c) == \E d \in 1..10 : DigitChars[d] = c

digitValue(c) == (CHOOSE d \in 1..10 : DigitChars[d] = c) - 1

\* std::to_string of a small non-negative int
to_string(n) ==
    IF n < 10 THEN <<DigitChars[n + 1]>>
    ELSE <<DigitChars[(n \div 10) + 1], DigitChars[(n % 10) + 1]>>

\* Card::toString
toString(card) ==
    LET suitStr == <<card.suit>>
        rankStr == IF card.rank = ACE THEN <<"A">>
                   ELSE IF card.rank = JACK THEN <<"J">>
                   ELSE IF card.rank = QUEEN THEN <<"Q">>
                   ELSE IF card.rank = KING THEN <<"K">>
                   ELSE to_string(card.rank)
    IN rankStr \o suitStr

\* std::stoi on a string without sign or blanks: the value of the longest
\* prefix of digits; -1 stands for the exception of a string with none.
RECURSIVE stoiFrom(_, _, _)
stoiFrom(str, i, acc) ==
    IF i > Len(str) \/ ~isDigit(str[i]) THEN acc
    ELSE stoiFrom(str, i + 1, acc * 10 + digitValue(str[i]))

stoi(str) == IF Len(str) = 0 \/ ~isDigit(str[1]) THEN -1 ELSE stoiFrom(str, 1, 0)

\* GameManager::parseCardFromString; threw = std::invalid_argument
parseCardFromString(cardStr) ==
    LET thrown == [threw |-> TRUE, card |-> Card("H", ACE)]
    IN IF Len(cardStr) < 2 THEN thrown
       ELSE LET suitChar == cardStr[Len(cardStr)]
                rankStr == SubSeq(cardStr, 1, Len(cardStr) - 1)
                rankValue == stoi(rankStr)
            IN IF suitChar \notin {"H", "D", "C", "S"} THEN thrown
               ELSE IF rankStr = <<"A">> THEN [threw |-> FALSE, card |-> Card(suitChar, ACE)]
               ELSE IF rankStr = <<"J">> THEN [threw |-> FALSE, card |-> Card(suitChar, JACK)]
               ELSE IF rankStr = <<"Q">> THEN [threw |-> FALSE, card |-> Card(suitChar, QUEEN)]
               ELSE IF rankStr = <<"K">> THEN [threw |-> FALSE, card |-> Card(suitChar, KING)]
               ELSE IF rankValue < 1 \/ rankValue > 13 THEN thrown
               ELSE [threw |-> FALSE, card |-> Card(suitChar, rankValue)]

convertCardsToStrings(cards) == [i \in 1..Len(cards) |-> toString(cards[i])]

(***************************************************************************)
(* std::map helpers: a map is a function whose domain is its key set.      *)
(***************************************************************************)
EmptyMap == <<>>

Put(m, k, v) == [x \in (DOMAIN m) \cup {k} |-> IF x = k THEN v ELSE m[x]]

Erase(m, k) == [x \in (DOMAIN m) \ {k} |-> m[x]]

(***************************************************************************)
(* PlayerManager.                                                          *)
(***************************************************************************)
Names   == {"a", "b", "c"}
Sockets == {1, 2, 3}

Player(player_name, socket) ==
    [name |-> player_name, socket_fd |-> socket, connected |-> TRUE,
     room_id |-> "", temporarily_disconnected |-> FALSE]

\* A registry value: the two maps players_mutex guards and the map
\* heartbeat_mutex guards.  There is no clock: a time stamp is "now" when it
\* was taken by the step that led to the state, and "earlier" otherwise.
Registry(ps, s2p, lp) ==
    [players |-> ps, socket_to_player |-> s2p, player_last_ping |-> lp]

\* every time stamp as the next step finds it
earlier(lp) == [n \in DOMAIN lp |-> "earlier"]

updateLastPing(pm, player_name) ==
    [pm EXCEPT !.player_last_ping = Put(@, player_name, "now")]

\* The find of connectPlayer misses a record that is temporarily disconnected
nameTaken_connectedOnly(pm, player_name) ==
    player_name \in DOMAIN pm.players
        /\ ~pm.players[player_name].temporarily_disconnected

\* players.find(player_name) != players.end()
nameTaken(pm, player_name) == player_name \in DOMAIN pm.players

\* The else branch of connectPlayer: map::emplace keeps a record that exists,
\* operator[] of the socket map overwrites
emplacePlayer(pm, player_name, client_socket) ==
    updateLastPing(
        Registry(IF player_name \in DOMAIN pm.players THEN pm.players
                 ELSE Put(pm.players, player_name, Player(player_name, client_socket)),
                 Put(pm.socket_to_player, client_socket, player_name),
                 pm.player_last_ping),
        player_name)

\* connectPlayer run without interruption
connectPlayer(pm, player_name, client_socket) ==
    IF nameTaken(pm, player_name)
    THEN [result |-> "", pm |-> pm]
    ELSE [result |-> player_name,
          pm |-> emplacePlayer(pm, player_name, client_socket)]

getPlayerIdFromSocket(pm, client_socket) ==
    IF client_socket \in DOMAIN pm.socket_to_player
    THEN pm.socket_to_player[client_socket] ELSE ""

getPlayerRoom(pm, player_name) ==
    IF player_name \in DOMAIN pm.players THEN pm.players[player_name].room_id ELSE ""

setPlayerRoom(pm, player_name, room_id) ==
    IF player_name \in DOMAIN pm.players
    THEN [pm EXCEPT !.players[player_name].room_id = room_id] ELSE pm

clearPlayerRoom(pm, player_name) ==
    IF player_name \in DOMAIN pm.players
    THEN [pm EXCEPT !.players[player_name].room_id = ""] ELSE pm

removePlayer(pm, player_name) ==
    IF player_name \in DOMAIN pm.players
    THEN LET socket_fd == pm.players[player_name].socket_fd
         IN Registry(Erase(pm.players, player_name),
                     IF socket_fd # -1 THEN Erase(pm.socket_to_player, socket_fd)
                     ELSE pm.socket_to_player,
                     Erase(pm.player_last_ping, player_name))
    ELSE pm

markPlayerTemporarilyDisconnected(pm, player_name) ==
    IF player_name \in DOMAIN pm.players
    THEN LET socket_fd == pm.players[player_name].socket_fd
         IN Registry([pm.players EXCEPT ![player_name].connected = FALSE,
                                        ![player_name].socket_fd = -1,
                                        ![player_name].temporarily_disconnected = TRUE],
                     IF socket_fd # -1 THEN Erase(pm.socket_to_player, socket_fd)
                     ELSE pm.socket_to_player,
                     pm.player_last_ping)
    ELSE pm

removeSocketMapping(pm, client_socket) ==
    [pm EXCEPT !.socket_to_player = Erase(@, client_socket)]

\* the record is restored but the time stamp is left as it was
reconnectPlayer_unstamped(pm, player_name, new_socket) ==
    IF player_name \in DOMAIN pm.players /\ pm.players[player_name].temporarily_disconnected
    THEN [ok |-> TRUE,
          pm |-> Registry([pm.players EXCEPT
                               ![player_name].connected = TRUE,
                               ![player_name].socket_fd = new_socket,
                               ![player_name].temporarily_disconnected = FALSE],
                          Put(pm.socket_to_player, new_socket, player_name),
                          pm.player_last_ping)]
    ELSE [ok |-> FALSE, pm |-> pm]

reconnectPlayer(pm, player_name, new_socket) ==
    IF player_name \in DOMAIN pm.players /\ pm.players[player_name].temporarily_disconnected
    THEN [ok |-> TRUE,
          pm |-> updateLastPing(
                     Registry([pm.players EXCEPT
                                   ![player_name].connected = TRUE,
                                   ![player_name].socket_fd = new_socket,
                                   ![player_name].temporarily_disconnected = FALSE],
                              Put(pm.socket_to_player, new_socket, player_name),
                              pm.player_last_ping),
                     player_name)]
    ELSE [ok |-> FALSE, pm |-> pm]

(***************************************************************************)
(* Room.                                                                   *)
(***************************************************************************)
Room(room_id) ==
    [id |-> room_id, players |-> <<>>, active |-> FALSE, gameLogic |-> GameLogic_new]

inVector(v, x) == \E i \in 1..Len(v) : v[i] = x

\* std::remove + erase: every occurrence of x leaves v
RECURSIVE removeAll(_, _)
removeAll(v, x) ==
    IF Len(v) = 0 THEN <<>>
    ELSE IF v[1] = x THEN removeAll(Tail(v), x)
    ELSE <<v[1]>> \o removeAll(Tail(v), x)

addPlayerToGame(room, playerId) ==
    LET r1 == IF ~inVector(room.players, playerId)
              THEN [room EXCEPT !.players = Append(@, playerId)] ELSE room
        a == addPlayer(r1.gameLogic, playerId)
    IN [ok |-> a.ok, room |-> [r1 EXCEPT !.gameLogic = a.g]]

\* Room::startGame with shuffle outcome k
Room_startGame(room, k) ==
    IF Len(room.players) < 2 THEN [ok |-> FALSE, room |-> room]
    ELSE LET r == GameLogic_startGame(room.gameLogic, k)
         IN IF r.threw THEN [ok |-> FALSE, room |-> room]
            ELSE [ok |-> TRUE, room |-> [room EXCEPT !.gameLogic = r.g, !.active = TRUE]]

isGameActive(room) == room.active /\ room.gameLogic.gameState = "GAME_STARTED"

(***************************************************************************)
(* RoomManager.  A server state st is the record of both registries.       *)
(***************************************************************************)
\* ServerConfig::max_rooms as configured: the smallest value that
\* ServerConfig::loadFromFile accepts.  RoomManager never reads it.
max_rooms == 1

RoomNames == <<"ROOM_1", "ROOM_2", "ROOM_3", "ROOM_4", "ROOM_5", "ROOM_6">>

\* "ROOM_" + std::to_string(n)
RoomName(n) == RoomNames[n]

Server(pm, rms, nxt, brn) ==
    [pm |-> pm, rooms |-> rms, next_room_id |-> nxt, burned |-> brn]

createRoom(st) ==
    LET room_name == RoomName(st.next_room_id)
    IN [room_name |-> room_name,
        st |-> [st EXCEPT !.rooms = Put(@, room_name, Room(room_name)),
                          !.burned = Put(@, room_name, <<>>),
                          !.next_room_id = @ + 1]]

joinRoom(st, player_id, room_id) ==
    IF room_id \notin DOMAIN st.rooms THEN [ok |-> FALSE, st |-> st]
    ELSE IF Len(st.rooms[room_id].players) >= 2 THEN [ok |-> FALSE, st |-> st]
    ELSE IF inVector(st.rooms[room_id].players, player_id) THEN [ok |-> FALSE, st |-> st]
    ELSE LET a == addPlayerToGame(st.rooms[room_id], player_id)
             st1 == [st EXCEPT !.rooms[room_id] = a.room]
         IN IF a.ok
            THEN [ok |-> TRUE, st |-> [st1 EXCEPT !.pm = setPlayerRoom(@, player_id, room_id)]]
            ELSE [ok |-> FALSE, st |-> st1]

\* The loop of joinAnyAvailableRoom over the rooms in key order, from room n
RECURSIVE joinFirstAvailable(_, _, _)
joinFirstAvailable(st, player_name, n) ==
    IF n >= st.next_room_id
    THEN LET c == createRoom(st)
             j == joinRoom(c.st, player_name, c.room_name)
         IN [room |-> IF j.ok THEN c.room_name ELSE "", st |-> j.st]
    ELSE IF RoomName(n) \in DOMAIN st.rooms /\ Len(st.rooms[RoomName(n)].players) = 1
         THEN LET j == joinRoom(st, player_name, RoomName(n))
              IN IF j.ok THEN [room |-> RoomName(n), st |-> j.st]
                 ELSE joinFirstAvailable(j.st, player_name, n + 1)
         ELSE joinFirstAvailable(st, player_name, n + 1)

joinAnyAvailableRoom(st, player_name) == joinFirstAvailable(st, player_name, 1)

getRoomPlayers(st, room_id) ==
    IF room_id \in DOMAIN st.rooms THEN st.rooms[room_id].players ELSE <<>>

\* RoomManager::leaveRoom: the room is the one the player record names
leaveRoom(st, player_id) ==
    IF player_id \notin DOMAIN st.pm.players THEN [ok |-> FALSE, st |-> st]
    ELSE LET room_id == st.pm.players[player_id].room_id
         IN IF room_id = "" THEN [ok |-> FALSE, st |-> st]
            ELSE IF room_id \in DOMAIN st.rooms
            THEN LET left == removeAll(st.rooms[room_id].players, player_id)
                     st1 == [st EXCEPT !.rooms[room_id].players = left,
                                       !.pm = clearPlayerRoom(@, player_id)]
                 IN [ok |-> TRUE,
                     st |-> IF Len(left) = 0
                            THEN [st1 EXCEPT !.rooms = Erase(@, room_id),
                                             !.burned = Erase(@, room_id)]
                            ELSE st1]
            ELSE [ok |-> FALSE, st |-> st]

\* RoomManager::deleteRoom
deleteRoom(st, room_id) ==
    [st EXCEPT !.rooms = Erase(@, room_id), !.burned = Erase(@, room_id)]

(***************************************************************************)
(* Protocol messages of a reply batch.                                     *)
(***************************************************************************)
Msg(type, player_id, room_id, bcast, data) ==
    [type |-> type, player_id |-> player_id, room_id |-> room_id,
     should_broadcast_to_room |-> bcast, data |-> data]

createErrorResponse(error_message) ==
    Msg("ERROR_MSG", "", "", FALSE, [error |-> error_message])

\* the reply handleClient sends when processMessage throws
InternalErrorReply ==
    <<Msg("ERROR_MSG", "", "", FALSE, [message |-> "Internal server error"])>>

createConnectedResponse(player_id, player_name) ==
    Msg("CONNECTED", player_id, "", FALSE, [name |-> player_name, status |-> "success"])

createTurnResultResponse(result) ==
    Msg("TURN_RESULT", "", "", FALSE, [result |-> result, status |-> "success"])

createGameOverResponse(winner) ==
    Msg("GAME_OVER", "", "", FALSE, [winner |-> winner, status |-> "game_over"])

createRoomLeftResponse(player_id) ==
    Msg("ROOM_LEFT", player_id, "", FALSE, [status |-> "left"])

createGameStartedResponse ==
    Msg("GAME_STARTED", "", "", FALSE, [status |-> "started"])

createRoomJoinedResponse(player_id, room_id) ==
    Msg("ROOM_JOINED", player_id, room_id, FALSE, [status |-> "success"])

createGameStateResponse(player_name, room_id, game_data) ==
    Msg("GAME_STATE", player_name, room_id, FALSE,
        [hand |-> game_data.hand_cards,
         reserves |-> game_data.reserve_count,
         current_player |-> game_data.current_player,
         top_card |-> game_data.top_discard_card,
         must_play_low |-> game_data.must_play_seven_or_lower,
         your_turn |-> (player_name = game_data.current_player),
         deck_size |-> game_data.deck_size,
         discard_pile_size |-> game_data.discard_pile_size])

(***************************************************************************)
(* GameManager.                                                            *)
(***************************************************************************)
PlaceholderTop == <<"1", "S">>

\* The loop of GameManager::playCards over card_strings[i..]; status is
\* "ok", "threw" (parseCardFromString threw) or "invalid" (return false)
RECURSIVE parseCardsFrom(_, _, _)
parseCardsFrom(card_strings, i, acc) ==
    IF i > Len(card_strings) THEN [status |-> "ok", cards |-> acc]
    ELSE LET p == parseCardFromString(card_strings[i])
         IN IF p.threw THEN [status |-> "threw", cards |-> acc]
            ELSE IF p.card = Card("H", ACE) /\ card_strings[i] # <<"A", "H">>
                 THEN [status |-> "invalid", cards |-> acc]
            ELSE parseCardsFrom(card_strings, i + 1, Append(acc, p.card))

GameManager_playCards(st, room_id, player_name, card_strings) ==
    LET failed == [threw |-> FALSE, ok |-> FALSE, st |-> st]
    IN IF room_id \notin DOMAIN st.rooms THEN failed
       ELSE IF ~isGameActive(st.rooms[room_id]) THEN failed
       ELSE LET p == parseCardsFrom(card_strings, 1, <<>>)
                r == GameLogic_playCards(st.rooms[room_id].gameLogic, player_name, p.cards)
            IN IF p.status = "threw" THEN [threw |-> TRUE, ok |-> FALSE, st |-> st]
               ELSE IF p.status = "invalid" THEN failed
               ELSE [threw |-> FALSE, ok |-> r.ok,
                     st |-> [st EXCEPT !.rooms[room_id].gameLogic = r.g,
                                       !.burned[room_id] = @ \o r.burned]]

GameManager_pickupPile(st, room_id, player_name) ==
    IF room_id \notin DOMAIN st.rooms THEN [ok |-> FALSE, st |-> st]
    ELSE IF ~isGameActive(st.rooms[room_id]) THEN [ok |-> FALSE, st |-> st]
    ELSE LET r == GameLogic_pickupDiscardPile(st.rooms[room_id].gameLogic, player_name)
         IN [ok |-> r.ok, st |-> [st EXCEPT !.rooms[room_id].gameLogic = r.g]]

\* GameManager::startGame with shuffle outcome k
GameManager_startGame(st, room_id, k) ==
    IF room_id \notin DOMAIN st.rooms THEN [ok |-> FALSE, st |-> st]
    ELSE IF Len(st.rooms[room_id].players) < 2 THEN [ok |-> FALSE, st |-> st]
    ELSE LET r == Room_startGame(st.rooms[room_id], k)
         IN [ok |-> r.ok,
             st |-> IF r.ok
                    THEN [st EXCEPT !.rooms[room_id] = r.room, !.burned[room_id] = <<>>]
                    ELSE st]

GameManager_isGameActive(st, room_id) ==
    room_id \in DOMAIN st.rooms /\ isGameActive(st.rooms[room_id])

\* the members the loops of isGameOver and getWinner stop at
noCardsLeft(room, player) ==
    getPlayerHandSize(room.gameLogic, player) = 0
        /\ getPlayerReserveSize(room.gameLogic, player) = 0

isGameOver(st, room_id) ==
    IF room_id \notin DOMAIN st.rooms THEN FALSE
    ELSE IF ~isGameActive(st.rooms[room_id]) THEN FALSE
    ELSE \E i \in 1..Len(st.rooms[room_id].players) :
            noCardsLeft(st.rooms[room_id], st.rooms[room_id].players[i])

getWinner(st, room_id) ==
    IF room_id \notin DOMAIN st.rooms THEN ""
    ELSE IF ~isGameActive(st.rooms[room_id]) THEN ""
    ELSE LET room == st.rooms[room_id]
             hits == {i \in 1..Len(room.players) : noCardsLeft(room, room.players[i])}
         IN IF hits = {} THEN ""
            ELSE room.players[CHOOSE i \in hits : \A j \in hits : i <= j]

\* every player is shown the hand and the reserves of the player at turn
getGameStateForPlayer_ofTurn(st, room_id, player_name) ==
    IF room_id \notin DOMAIN st.rooms
    THEN [valid |-> FALSE, error_message |-> "Room not found"]
    ELSE IF ~isGameActive(st.rooms[room_id])
    THEN [valid |-> FALSE, error_message |-> "Game not active"]
    ELSE LET g == st.rooms[room_id].gameLogic
         IN [valid |-> TRUE,
             hand_cards |-> convertCardsToStrings(getPlayerHand(g, getCurrentPlayer(g))),
             reserve_count |-> getPlayerReserveSize(g, getCurrentPlayer(g)),
             current_player |-> getCurrentPlayer(g),
             top_discard_card |-> IF Len(g.discardPile) # 0
                                  THEN toString(back(g.discardPile))
                                  ELSE PlaceholderTop,
             must_play_seven_or_lower |-> g.mustPlaySevenOrLower,
             deck_size |-> Len(g.deck),
             discard_pile_size |-> Len(g.discardPile)]

getGameStateForPlayer(st, room_id, player_name) ==
    IF room_id \notin DOMAIN st.rooms
    THEN [valid |-> FALSE, error_message |-> "Room not found"]
    ELSE IF ~isGameActive(st.rooms[room_id])
    THEN [valid |-> FALSE, error_message |-> "Game not active"]
    ELSE LET g == st.rooms[room_id].gameLogic
         IN [valid |-> TRUE,
             hand_cards |-> convertCardsToStrings(getPlayerHand(g, player_name)),
             reserve_count |-> getPlayerReserveSize(g, player_name),
             current_player |-> getCurrentPlayer(g),
             top_discard_card |-> IF Len(g.discardPile) # 0
                                  THEN toString(back(g.discardPile))
                                  ELSE PlaceholderTop,
             must_play_seven_or_lower |-> g.mustPlaySevenOrLower,
             deck_size |-> Len(g.deck),
             discard_pile_size |-> Len(g.discardPile)]

\* "GAME_STATE for each player in room": the valid snapshots, in member order
RECURSIVE gameStatesFrom(_, _, _, _)
gameStatesFrom(st, room_id, room_players, i) ==
    IF i > Len(room_players) THEN <<>>
    ELSE LET game_data == getGameStateForPlayer(st, room_id, room_players[i])
             rest == gameStatesFrom(st, room_id, room_players, i + 1)
         IN IF game_data.valid
            THEN <<createGameStateResponse(room_players[i], room_id, game_data)>> \o rest
            ELSE rest

gameStates(st, room_id) == gameStatesFrom(st, room_id, getRoomPlayers(st, room_id), 1)

(***************************************************************************)
(* MessageHandler: each handler maps a server state to the new state and   *)
(* the reply batch; threw = an exception left processMessage.              *)
(***************************************************************************)
Handled(st, batch) == [threw |-> FALSE, st |-> st, replies |-> batch]

Thrown(st) == [threw |-> TRUE, st |-> st, replies |-> InternalErrorReply]

\* "Send X to both players": one message per member, targeted at the member
targetedAt(room_players, msg) ==
    [i \in 1..Len(room_players) |-> [msg EXCEPT !.player_id = room_players[i]]]

roomLeftFor(room_players) ==
    [i \in 1..Len(room_players) |-> createRoomLeftResponse(room_players[i])]

\* clearPlayerRoom for every member, in order
RECURSIVE clearRoomsFrom(_, _, _)
clearRoomsFrom(pm, room_players, i) ==
    IF i > Len(room_players) THEN pm
    ELSE clearRoomsFrom(clearPlayerRoom(pm, room_players[i]), room_players, i + 1)

handleConnect(st, player_name, client_socket) ==
    IF player_name = ""
    THEN Handled(st, <<createErrorResponse("Player name cannot be empty")>>)
    ELSE LET c == connectPlayer(st.pm, player_name, client_socket)
         IN IF c.result # ""
            THEN Handled([st EXCEPT !.pm = c.pm],
                         <<createConnectedResponse(c.result, player_name)>>)
            ELSE Handled(st,
                    <<createErrorResponse("Connection failed - name already taken")>>)

\* the reply part of handleJoinRoom, given what joinAnyAvailableRoom returned
roomAssigned(st, assigned_room, player_name) ==
    LET st1 == [st EXCEPT !.pm = setPlayerRoom(@, player_name, assigned_room)]
        room_players == getRoomPlayers(st1, assigned_room)
        response == [createRoomJoinedResponse(player_name, assigned_room) EXCEPT
                        !.should_broadcast_to_room = TRUE,
                        !.data = [status |-> "success",
                                  players |-> room_players,
                                  player_count |-> Len(room_players),
                                  room_full |-> (Len(room_players) >= 2)]]
    IN IF assigned_room # "" THEN Handled(st1, <<response>>)
       ELSE Handled(st, <<createErrorResponse("Error occurred while joining room")>>)

joinedAs(j, player_name) == roomAssigned(j.st, j.room, player_name)

handleJoinRoom(st, player_name) ==
    joinedAs(joinAnyAvailableRoom(st, player_name), player_name)

handleLeaveRoom(st, player_name) ==
    LET l == leaveRoom(st, player_name)
    IN IF l.ok
       THEN Handled([l.st EXCEPT !.pm = clearPlayerRoom(@, player_name)],
                    <<[createRoomLeftResponse(player_name) EXCEPT
                          !.should_broadcast_to_room = TRUE]>>)
       ELSE Handled(l.st, <<createErrorResponse("Leave room failed")>>)

\* the reply part of handleStartGame, given what GameManager::startGame returned
gameStarted(st, r, room_id) ==
    LET game_started == [createGameStartedResponse EXCEPT
                            !.room_id = room_id, !.should_broadcast_to_room = TRUE]
    IN IF ~r.ok THEN Handled(st, <<createErrorResponse("Cannot start game")>>)
       ELSE Handled(r.st, <<game_started>> \o gameStates(r.st, room_id))

\* handleStartGame with shuffle outcome k
handleStartGame(st, player_name, k) ==
    IF getPlayerRoom(st.pm, player_name) = ""
    THEN Handled(st, <<createErrorResponse("Not in any room")>>)
    ELSE gameStarted(st,
            GameManager_startGame(st, getPlayerRoom(st.pm, player_name), k),
            getPlayerRoom(st.pm, player_name))

\* the reply part of handlePickupPile, given what GameManager::pickupPile returned
pileTaken(st, r, room_id, player_name) ==
    LET turn_result == [createTurnResultResponse("pickup_success") EXCEPT
                            !.player_id = player_name]
    IN IF ~r.ok THEN Handled(st, <<createErrorResponse("Cannot pickup pile")>>)
       ELSE Handled(r.st, <<turn_result>> \o gameStates(r.st, room_id))

handlePickupPile(st, player_name) ==
    IF getPlayerRoom(st.pm, player_name) = ""
    THEN Handled(st, <<createErrorResponse("Not in any room")>>)
    ELSE pileTaken(st,
            GameManager_pickupPile(st, getPlayerRoom(st.pm, player_name), player_name),
            getPlayerRoom(st.pm, player_name), player_name)

\* step 5b of handlePlayCards: the game has ended
gameEnded(st, room_id, winner, room_players, turn_result) ==
    Handled(deleteRoom([st EXCEPT !.pm = clearRoomsFrom(@, room_players, 1)], room_id),
            <<turn_result>>
                \o targetedAt(room_players,
                              [createGameOverResponse(winner) EXCEPT !.room_id = room_id])
                \o roomLeftFor(room_players))

\* step 5 of handlePlayCards, st being the state the accepted play left
cardsPlayed(st, room_id, player_name) ==
    LET turn_result == [createTurnResultResponse("play_success") EXCEPT
                            !.player_id = player_name]
    IN IF isGameOver(st, room_id)
       THEN gameEnded(st, room_id, getWinner(st, room_id),
                      getRoomPlayers(st, room_id), turn_result)
       ELSE Handled(st, <<turn_result>> \o gameStates(st, room_id))

\* steps 4 and 5 of handlePlayCards, given what GameManager::playCards returned
playResult(st, r, room_id, player_name) ==
    IF r.threw THEN Thrown(st)
    ELSE IF ~r.ok THEN Handled(st, <<createErrorResponse("Invalid card play")>>)
    ELSE cardsPlayed(r.st, room_id, player_name)

\* handlePlayCards; cards = the comma-separated items of the "cards" field
handlePlayCards(st, cards, player_name) ==
    IF Len(cards) = 0 THEN Handled(st, <<createErrorResponse("No cards specified")>>)
    ELSE IF getPlayerRoom(st.pm, player_name) = ""
    THEN Handled(st, <<createErrorResponse("Not in any room")>>)
    ELSE playResult(st,
            GameManager_playCards(st, getPlayerRoom(st.pm, player_name),
                                  player_name, cards),
            getPlayerRoom(st.pm, player_name), player_name)

createPongResponse == Msg("PONG", "", "", FALSE, [status |-> "ok"])

handlePing(st, player_name) ==
    Handled([st EXCEPT !.pm = updateLastPing(@, player_name)], <<createPongResponse>>)

\* PLAYER_RECONNECTED for every other member of the room, from member i on
RECURSIVE reconnectNotices(_, _, _, _)
reconnectNotices(room_players, i, player_name, room_id) ==
    IF i > Len(room_players) THEN <<>>
    ELSE LET rest == reconnectNotices(room_players, i + 1, player_name, room_id)
         IN IF room_players[i] # player_name
            THEN <<Msg("PLAYER_RECONNECTED", room_players[i], room_id, FALSE,
                       [reconnected_player |-> player_name, status |-> "reconnected"])>>
                 \o rest
            ELSE rest

handleReconnect(st, player_name, client_socket) ==
    LET r == reconnectPlayer(st.pm, player_name, client_socket)
        st1 == [st EXCEPT !.pm = r.pm]
        connected == createConnectedResponse(player_name, player_name)
        room_id == getPlayerRoom(st1.pm, player_name)
        game_data == getGameStateForPlayer(st1, room_id, player_name)
        game_state == IF game_data.valid
                      THEN <<createGameStateResponse(player_name, room_id, game_data)>>
                      ELSE <<>>
    IN IF player_name = ""
       THEN Handled(st, <<createErrorResponse("Player name required")>>)
       ELSE IF ~r.ok
       THEN Handled(st, <<createErrorResponse(
                "Reconnection failed - player not found or session expired")>>)
       ELSE IF room_id # "" /\ room_id # "lobby" /\ GameManager_isGameActive(st1, room_id)
       THEN Handled(st1, <<connected>> \o game_state
                \o reconnectNotices(getRoomPlayers(st1, room_id), 1, player_name, room_id))
       ELSE Handled(st1, <<connected>>)

\* A parsed request: its type, the name field and the items of the cards field
Request(type, name, cards) == [type |-> type, name |-> name, cards |-> cards]

requiresActivePlayer(type) == ~(type = "RECONNECT" \/ type = "CONNECT")

\* processMessage for a well-formed frame; k is the shuffle outcome of a start
processMessage(st, msg, client_socket, k) ==
    LET player_name == IF requiresActivePlayer(msg.type)
                       THEN getPlayerIdFromSocket(st.pm, client_socket) ELSE ""
    IN IF requiresActivePlayer(msg.type) /\ player_name = ""
       THEN Handled(st, <<createErrorResponse("Must connect first")>>)
       ELSE CASE msg.type = "CONNECT"     -> handleConnect(st, msg.name, client_socket)
              [] msg.type = "RECONNECT"   -> handleReconnect(st, msg.name, client_socket)
              [] msg.type = "PING"        -> handlePing(st, player_name)
              [] msg.type = "JOIN_ROOM"   -> handleJoinRoom(st, player_name)
              [] msg.type = "LEAVE_ROOM"  -> handleLeaveRoom(st, player_name)
              [] msg.type = "START_GAME"  -> handleStartGame(st, player_name, k)
              [] msg.type = "PLAY_CARDS"  -> handlePlayCards(st, msg.cards, player_name)
              [] msg.type = "PICKUP_PILE" -> handlePickupPile(st, player_name)
              [] OTHER -> Handled(st, <<createErrorResponse("Unknown message type")>>)

(***************************************************************************)
(* NetworkManager: what handleClient writes for a reply batch.  A frame    *)
(* is the socket written to, the index of the reply in the batch and the   *)
(* message serialized.                                                     *)
(***************************************************************************)
setData(msg, key, value) ==
    [msg EXCEPT !.data = [k \in DOMAIN msg.data \cup {key} |->
                             IF k = key THEN value ELSE msg.data[k]]]

getPlayersInRoom(pm, room_id) ==
    {p \in DOMAIN pm.players : pm.players[p].room_id = room_id}

\* getPlayer(...) has a value, is connected and has a socket
hasSocket(pm, player_name) ==
    /\ player_name \in DOMAIN pm.players
    /\ pm.players[player_name].connected
    /\ pm.players[player_name].socket_fd # -1

Frame(socket, i, msg) == [socket |-> socket, reply |-> i, msg |-> msg]

broadcastToRoom(pm, room_id, message, exclude_player, i) ==
    {Frame(pm.players[p].socket_fd, i, message) :
        p \in {q \in getPlayersInRoom(pm, room_id) :
                  q # exclude_player /\ hasSocket(pm, q)}}

\* the notification made of a reply flagged should_broadcast_to_room
broadcast_msg(response, player_name) ==
    IF response.type = "ROOM_JOINED"
    THEN setData(setData(response, "broadcast_type", "room_notification"),
                 "joined_player", player_name)
    ELSE setData(response, "broadcast_type", "room_notification")

\* one iteration of the loop over the replies
sendResponse(pm, client_socket, response, i) ==
    IF response.should_broadcast_to_room
    THEN IF response.room_id # ""
         THEN {Frame(client_socket, i, response)}
              \cup broadcastToRoom(pm, response.room_id,
                       broadcast_msg(response, getPlayerIdFromSocket(pm, client_socket)),
                       getPlayerIdFromSocket(pm, client_socket), i)
         ELSE {}
    ELSE IF response.player_id # ""
    THEN IF hasSocket(pm, response.player_id)
         THEN {Frame(pm.players[response.player_id].socket_fd, i, response)}
         ELSE {}
    ELSE {Frame(client_socket, i, response)}

sendResponses(pm, client_socket, responses) ==
    UNION {sendResponse(pm, client_socket, responses[i], i) : i \in 1..Len(responses)}

(***************************************************************************)
(* NetworkManager: connection teardown and the heartbeat supervisor.       *)
(***************************************************************************)
PlayerDisconnected(player_name, room_id, status) ==
    Msg("PLAYER_DISCONNECTED", player_name, room_id, FALSE,
        [disconnected_player |-> player_name, status |-> status])

\* what is broadcast to the room of a player that went away
disconnectBroadcast(st, player_name, status) ==
    IF getPlayerRoom(st.pm, player_name) # ""
    THEN <<PlayerDisconnected(player_name, getPlayerRoom(st.pm, player_name), status)>>
    ELSE <<>>

\* The teardown of handleClient: mark the player of the socket, broadcast
\* PLAYER_DISCONNECTED to the room, remove the socket mapping, close the
\* socket.  frames are the writes of the broadcast, closes the calls of
\* close(client_socket).
teardown(st, client_socket, status) ==
    LET disconnected_player == getPlayerIdFromSocket(st.pm, client_socket)
        room_id == getPlayerRoom(st.pm, disconnected_player)
        pm1 == IF disconnected_player # ""
               THEN markPlayerTemporarilyDisconnected(st.pm, disconnected_player)
               ELSE st.pm
    IN [st |-> [st EXCEPT !.pm = removeSocketMapping(pm1, client_socket)],
        sent |-> IF disconnected_player # ""
                 THEN disconnectBroadcast(st, disconnected_player, status)
                 ELSE <<>>,
        frames |-> IF disconnected_player # "" /\ room_id # ""
                   THEN broadcastToRoom(pm1, room_id,
                            PlayerDisconnected(disconnected_player, room_id, status),
                            disconnected_player, 1)
                   ELSE {},
        closes |-> 1]

\* The cleanup at the end of handleClient, after recv returned 0 or failed
closeClient(st, client_socket) ==
    teardown(st, client_socket, "temporarily_disconnected")

\* MessageValidator::isValidFormat
find(str, c) ==
    IF \E i \in 1..Len(str) : str[i] = c
    THEN CHOOSE i \in 1..Len(str) : str[i] = c /\ \A j \in 1..(i - 1) : str[j] # c
    ELSE 0

isValidFormat(raw_message) ==
    /\ Len(raw_message) # 0
    /\ find(raw_message, "|") # 0
    /\ LET type_code == stoi(SubSeq(raw_message, 1, find(raw_message, "|") - 1))
       IN type_code >= 0 /\ type_code <= 200

isValidMessageType(type_code) == type_code \in (0..8) \cup (100..112)

\* the reply of processMessage to a frame it refuses
disconnect_response ==
    setData(Msg("ERROR_MSG", "", "", FALSE, EmptyMap), "disconnect", "true")

\* processMessage refuses the frame: bad format, or a type code that is no
\* MessageType
refused(raw_message) ==
    \/ ~isValidFormat(raw_message)
    \/ ~isValidMessageType(stoi(SubSeq(raw_message, 1, find(raw_message, "|") - 1)))

\* the reply loop on a reply that carries disconnect=true
disconnectClient(st, client_socket) ==
    teardown(st, client_socket, "invalid_message")

\* The heartbeat loop's handling of one player whose ping timed out
pingTimeout(st, player_name) ==
    [st |-> [st EXCEPT !.pm = markPlayerTemporarilyDisconnected(@, player_name)],
     sent |-> disconnectBroadcast(st, player_name, "timed_out")]

\* std::find + erase(it): the first occurrence of x leaves v
RECURSIVE eraseFirst(_, _)
eraseFirst(v, x) ==
    IF Len(v) = 0 THEN <<>>
    ELSE IF v[1] = x THEN Tail(v)
    ELSE <<v[1]>> \o eraseFirst(Tail(v), x)

GameLogic_resetGame(g) ==
    [g EXCEPT !.gameState = "WAITING_FOR_PLAYERS", !.players = <<>>,
              !.discardPile = <<>>, !.currentPlayerIndex = 0, !.clockwise = TRUE,
              !.mustPlaySevenOrLower = FALSE, !.deck = initializeStandardDeck]

Room_resetGame(room) ==
    [room EXCEPT !.gameLogic = GameLogic_resetGame(@), !.active = FALSE]

handlePlayerTimeout(st, player_name) ==
    LET room_id == getPlayerRoom(st.pm, player_name)
        room == st.rooms[room_id]
        left == eraseFirst(room.players, player_name)
        st1 == IF room_id \in DOMAIN st.rooms /\ inVector(room.players, player_name)
               THEN IF Len(left) = 0
                    THEN [st EXCEPT !.rooms = Erase(@, room_id),
                                    !.burned = Erase(@, room_id)]
                    ELSE IF isGameActive(room) /\ Len(left) = 1
                    THEN [st EXCEPT !.rooms[room_id] =
                                        Room_resetGame([room EXCEPT !.players = left])]
                    ELSE [st EXCEPT !.rooms[room_id].players = left]
               ELSE st
    IN IF room_id # "" /\ room_id # "lobby"
       THEN [st1 EXCEPT !.pm = clearPlayerRoom(@, player_name)]
       ELSE st

\* GAME_OVER and ROOM_LEFT for each remaining player that can be reached
RECURSIVE expiryNotices(_, _, _)
expiryNotices(reached, i, room_id) ==
    IF i > Len(reached) THEN <<>>
    ELSE <<Msg("GAME_OVER", reached[i], room_id, FALSE,
               [winner |-> reached[i], reason |-> "opponent_disconnect",
                status |-> "game_over"]),
           Msg("ROOM_LEFT", reached[i], "", FALSE, [status |-> "left"])>>
         \o expiryNotices(reached, i + 1, room_id)

\* The heartbeat loop's cleanup of one player whose reconnection window expired
cleanupPlayer(st, player_name) ==
    LET room_id == getPlayerRoom(st.pm, player_name)
        room_players == getRoomPlayers(st, room_id)
        game_was_active == GameManager_isGameActive(st, room_id)
        st1 == handlePlayerTimeout(st, player_name)
        canReach(p) == /\ p # player_name
                       /\ p \in DOMAIN st1.pm.players
                       /\ st1.pm.players[p].connected
                       /\ st1.pm.players[p].socket_fd # -1
        reached == SelectSeq(room_players, canReach)
        st2 == IF room_id # "" /\ room_id # "lobby"
               THEN IF game_was_active
                    THEN deleteRoom([st1 EXCEPT !.pm = clearRoomsFrom(@, reached, 1)],
                                    room_id)
                    ELSE st1
               ELSE st
    IN [st |-> [st2 EXCEPT !.pm = removePlayer(clearPlayerRoom(@, player_name),
                                               player_name)],
        sent |-> IF room_id # "" /\ room_id # "lobby" /\ game_was_active
                 THEN expiryNotices(reached, 1, room_id) ELSE <<>>]

(***************************************************************************)
(* The server as a state machine.  One step is one request served by the   *)
(* worker of a socket, or one action of the heartbeat supervisor.          *)
(***************************************************************************)
Cur == Server(Registry(players, socket_to_player, earlier(player_last_ping)),
              rooms, next_room_id, burned)

Install(st) ==
    /\ players' = st.pm.players
    /\ socket_to_player' = st.pm.socket_to_player
    /\ player_last_ping' = st.pm.player_last_ping
    /\ rooms' = st.rooms
    /\ next_room_id' = st.next_room_id
    /\ burned' = st.burned

Served(client_socket, msg) ==
    [socket |-> client_socket, type |-> msg.type, name |-> msg.name, cards |-> msg.cards,
     closes |-> 0]

NoReq == [socket |-> 0, type |-> "", name |-> "", cards |-> <<>>, closes |-> 0]

NoProbe == [fn |-> "", cards |-> <<>>, topCard |-> Card("H", TWO),
            mustPlaySevenOrLower |-> FALSE, result |-> FALSE, pile |-> <<>>]

\* the requests whose acceptance the bound MaxMoves counts
CountedRequests == {"JOIN_ROOM", "LEAVE_ROOM", "START_GAME", "PLAY_CARDS", "PICKUP_PILE"}

\* the request reaches a lock of rooms_mutex
locksRooms(st, msg, client_socket) ==
    LET player_name == getPlayerIdFromSocket(st.pm, client_socket)
        room_id == getPlayerRoom(st.pm, player_name)
    IN CASE msg.type \in {"JOIN_ROOM", "LEAVE_ROOM"} -> player_name # ""
         [] msg.type \in {"START_GAME", "PICKUP_PILE"} ->
                player_name # "" /\ room_id # ""
         [] msg.type = "PLAY_CARDS" ->
                player_name # "" /\ Len(msg.cards) # 0 /\ room_id # ""
         [] msg.type = "RECONNECT" ->
                /\ msg.name # ""
                /\ reconnectPlayer(st.pm, msg.name, client_socket).ok
                /\ getPlayerRoom(st.pm, msg.name) \notin {"", "lobby"}
         [] OTHER -> FALSE

\* what the request has changed when its worker reaches the lock
beforeLock(st, msg, client_socket) ==
    IF msg.type = "RECONNECT"
    THEN [st EXCEPT !.pm = reconnectPlayer(st.pm, msg.name, client_socket).pm]
    ELSE st

\* handleClient serving one complete frame; h is what processMessage returns
ServeWith(h, client_socket, msg) ==
    LET accepted == /\ msg.type \in CountedRequests
                    /\ ~h.threw
                    /\ h.replies[1].type # "ERROR_MSG"
    IN /\ probe = NoProbe
       /\ client_socket \notin blocked
       /\ conn[client_socket] = ""
       /\ lastReq' = Served(client_socket, msg)
       /\ IF rooms_mutex # 0 /\ locksRooms(Cur, msg, client_socket)
          THEN /\ Install(beforeLock(Cur, msg, client_socket))
               /\ blocked' = blocked \cup {client_socket}
               /\ replies' = <<>>
               /\ UNCHANGED <<moves, rooms_mutex>>
          ELSE /\ accepted => moves < MaxMoves
               /\ h.st.next_room_id <= MaxRoomId + 1
               /\ Install(h.st)
               /\ replies' = h.replies
               /\ moves' = IF accepted THEN moves + 1 ELSE moves
               /\ UNCHANGED <<rooms_mutex, blocked>>
       /\ UNCHANGED <<probe, conn, cleanup_players, unsent, delivered>>

Connect(client_socket, player_name) ==
    \E h \in {processMessage(Cur, Request("CONNECT", player_name, <<>>),
                             client_socket, 0)} :
        ServeWith(h, client_socket, Request("CONNECT", player_name, <<>>))

Reconnect(client_socket, player_name) ==
    \E h \in {processMessage(Cur, Request("RECONNECT", player_name, <<>>),
                             client_socket, 0)} :
        ServeWith(h, client_socket, Request("RECONNECT", player_name, <<>>))

\* joinAnyAvailableRoom locks rooms_mutex and, holding it, calls joinRoom or
\* createRoom, which lock it again: the behaviour of the second lock is
\* undefined.  It may go through, throw std::system_error, or never return.
JoinOutcomes == {"proceed", "throw", "stuck"}

JoinRoom(client_socket, outcome) ==
    \E h \in {processMessage(Cur, Request("JOIN_ROOM", "", <<>>), client_socket, 0)} :
        IF \/ getPlayerIdFromSocket(Cur.pm, client_socket) = ""
           \/ rooms_mutex # 0
           \/ outcome = "proceed"
        THEN /\ outcome = "proceed"
             /\ ServeWith(h, client_socket, Request("JOIN_ROOM", "", <<>>))
        ELSE /\ client_socket \notin blocked
             /\ conn[client_socket] = ""
             /\ lastReq' = Served(client_socket, Request("JOIN_ROOM", "", <<>>))
             /\ IF outcome = "throw"
                THEN /\ replies' = InternalErrorReply
                     /\ UNCHANGED <<rooms_mutex, blocked>>
                ELSE /\ replies' = <<>>
                     /\ rooms_mutex' = client_socket
                     /\ blocked' = blocked \cup {client_socket}
             /\ player_last_ping' = earlier(player_last_ping)
             /\ UNCHANGED <<players, socket_to_player, rooms, next_room_id, burned,
                            moves, probe, conn,
                      cleanup_players, unsent, delivered>>

LeaveRoom(client_socket) ==
    \E h \in {processMessage(Cur, Request("LEAVE_ROOM", "", <<>>), client_socket, 0)} :
        ServeWith(h, client_socket, Request("LEAVE_ROOM", "", <<>>))

StartGame(client_socket, k) ==
    \E h \in {processMessage(Cur, Request("START_GAME", "", <<>>), client_socket, k)} :
        ServeWith(h, client_socket, Request("START_GAME", "", <<>>))

PlayCards(client_socket, cards) ==
    \E h \in {processMessage(Cur, Request("PLAY_CARDS", "", cards), client_socket, 0)} :
        ServeWith(h, client_socket, Request("PLAY_CARDS", "", cards))

PickupPile(client_socket) ==
    \E h \in {processMessage(Cur, Request("PICKUP_PILE", "", <<>>), client_socket, 0)} :
        ServeWith(h, client_socket, Request("PICKUP_PILE", "", <<>>))

(***************************************************************************)
(* connectPlayer takes no lock: its find and its insertion are two steps   *)
(* of the worker, and steps of other workers may come between them.        *)
(***************************************************************************)
ConnectFind(client_socket, player_name) ==
    LET msg == Request("CONNECT", player_name, <<>>)
    IN /\ client_socket \notin blocked
       /\ conn[client_socket] = ""
       /\ lastReq' = Served(client_socket, msg)
       /\ IF player_name = "" \/ nameTaken(Cur.pm, player_name)
          THEN /\ replies' = processMessage(Cur, msg, client_socket, 0).replies
               /\ UNCHANGED conn
          ELSE /\ replies' = <<>>
               /\ conn' = [conn EXCEPT ![client_socket] = player_name]
       /\ player_last_ping' = earlier(player_last_ping)
       /\ UNCHANGED <<players, socket_to_player, rooms, next_room_id, rooms_mutex,
                      blocked, burned, moves, probe,
                      cleanup_players, unsent, delivered>>

ConnectEmplace(client_socket) ==
    LET player_name == conn[client_socket]
    IN /\ player_name # ""
       /\ Install([Cur EXCEPT !.pm = emplacePlayer(@, player_name, client_socket)])
       /\ conn' = [conn EXCEPT ![client_socket] = ""]
       /\ lastReq' = Served(client_socket, Request("CONNECT", player_name, <<>>))
       /\ replies' = <<createConnectedResponse(player_name, player_name)>>
       /\ UNCHANGED <<rooms_mutex, blocked, moves, probe,
                      cleanup_players, unsent, delivered>>

\* The client of a socket goes away
Close(client_socket) ==
    LET c == closeClient(Cur, client_socket)
    IN /\ probe = NoProbe
       /\ client_socket \notin blocked
       /\ conn[client_socket] = ""
       /\ Install(c.st)
       /\ replies' = c.sent
       /\ lastReq' = [Served(client_socket, Request("close", "", <<>>)) EXCEPT
                         !.closes = c.closes]
       /\ UNCHANGED <<rooms_mutex, blocked, moves, probe, conn,
                      cleanup_players, unsent, delivered>>

\* The bad frames a client sends in the model: no separator, a type that is
\* no number, a type code out of range, a type code that is no MessageType
BadFrames ==
    { <<"4">>, <<"x", "|">>, <<"2", "0", "1", "|", "|">>, <<"9", "9", "|", "|">> }

\* A client sends a frame that processMessage refuses: the reply carries
\* disconnect=true, handleClient sends it, tears the connection down and returns
Violation(client_socket, raw_message) ==
    LET c == disconnectClient(Cur, client_socket)
    IN /\ probe = NoProbe
       /\ client_socket \notin blocked
       /\ conn[client_socket] = ""
       /\ refused(raw_message)
       /\ Install(c.st)
       /\ replies' = <<disconnect_response>> \o c.sent
       /\ lastReq' = [Served(client_socket, Request("violation", "", <<>>)) EXCEPT
                         !.closes = c.closes]
       /\ UNCHANGED <<rooms_mutex, blocked, moves, probe, conn,
                      cleanup_players, unsent, delivered>>

\* The supervisor finds the last ping of a connected player too old
PingTimeout(player_name) ==
    LET t == pingTimeout(Cur, player_name)
    IN /\ probe = NoProbe
       /\ player_name \in DOMAIN players
       /\ players[player_name].connected
       /\ Install(t.st)
       /\ replies' = t.sent
       /\ lastReq' = Served(0, Request("timeout", player_name, <<>>))
       /\ UNCHANGED <<rooms_mutex, blocked, moves, probe, conn,
                      cleanup_players, unsent, delivered>>

\* The supervisor finds the reconnection window of a player expired
GraceExpiry(player_name) ==
    LET c == cleanupPlayer(Cur, player_name)
    IN /\ probe = NoProbe
       /\ player_name \in DOMAIN players
       /\ players[player_name].temporarily_disconnected
       /\ rooms_mutex = 0 \/ getPlayerRoom(Cur.pm, player_name) \in {"", "lobby"}
       /\ Install(c.st)
       /\ replies' = c.sent
       /\ lastReq' = Served(0, Request("expiry", player_name, <<>>))
       /\ UNCHANGED <<rooms_mutex, blocked, moves, probe, conn,
                      cleanup_players, unsent, delivered>>

(***************************************************************************)
(* Direct calls of the rule functions on drawn inputs.  A run that calls   *)
(* them serves no client: the server actions require probe = NoProbe.      *)
(***************************************************************************)
RuleCards == {Card(Suits[i], r) : i \in 1..MaxRuleSuits, r \in Ranks}

RulePlays == {<<c>> : c \in RuleCards}
                \cup {<<c, d>> : c \in RuleCards, d \in {x \in RuleCards : x.suit = "H"}}

RuleProbes ==
    {[fn |-> "", cards |-> cs, topCard |-> t, mustPlaySevenOrLower |-> f,
      result |-> FALSE, pile |-> <<>>] : cs \in RulePlays, t \in RuleCards,
                                          f \in BOOLEAN}

CallCanPlayOn ==
    /\ probe.fn = ""
    /\ Len(probe.cards) = 1
    /\ probe' = [probe EXCEPT !.fn = "canPlayOn",
                              !.result = canPlayOn(probe.cards[1], probe.topCard,
                                                   probe.mustPlaySevenOrLower)]
    /\ UNCHANGED <<players, socket_to_player, player_last_ping, rooms, next_room_id,
                   rooms_mutex, blocked, burned, lastReq, replies, moves, conn,
                   cleanup_players, unsent, delivered>>

CallIsValidPlay ==
    /\ probe.fn = ""
    /\ probe # NoProbe
    /\ probe' = [probe EXCEPT !.fn = "isValidPlay",
                              !.result = isValidPlay(probe.cards, probe.topCard,
                                                     probe.mustPlaySevenOrLower)]
    /\ UNCHANGED <<players, socket_to_player, player_last_ping, rooms, next_room_id,
                   rooms_mutex, blocked, burned, lastReq, replies, moves, conn,
                   cleanup_players, unsent, delivered>>

\* The call GameLogic::playCards makes: the cards played lie on the pile, here
\* on topCard; the flag and the pile are passed by reference
CallApplySpecialCardEffects ==
    /\ probe.fn = ""
    /\ probe # NoProbe
    /\ \E eff \in {applySpecialCardEffects(probe.cards, <<probe.topCard>> \o probe.cards)} :
         probe' = [probe EXCEPT !.fn = "applySpecialCardEffects",
                                !.result = eff.mustPlaySevenOrLower,
                                !.pile = eff.discardPile]
    /\ UNCHANGED <<players, socket_to_player, player_last_ping, rooms, next_room_id,
                   rooms_mutex, blocked, burned, lastReq, replies, moves, conn,
                   cleanup_players, unsent, delivered>>

\* GameLogic::drawCardsToHand as GameLogic::playCards calls it: a player who
\* holds the cards draws from a deck that is empty, or else topCard and the
\* cards; pile receives the hand and result whether the deck is left empty
CallDrawCardsToHand ==
    /\ probe.fn = ""
    /\ probe # NoProbe
    /\ \E g \in {drawCardsToHand(
                    [GameLogic_new EXCEPT
                        !.players = <<[PlayerHand("a") EXCEPT !.hand = probe.cards]>>,
                        !.deck = IF probe.mustPlaySevenOrLower THEN <<>>
                                 ELSE <<probe.topCard>> \o probe.cards], "a")} :
         probe' = [probe EXCEPT !.fn = "drawCardsToHand",
                                !.result = (Len(g.deck) = 0),
                                !.pile = g.players[1].hand]
    /\ UNCHANGED <<players, socket_to_player, player_last_ping, rooms, next_room_id,
                   rooms_mutex, blocked, burned, lastReq, replies, moves, conn,
                   cleanup_players, unsent, delivered>>

(***************************************************************************)
(* Specifications.                                                         *)
(***************************************************************************)
\* no GAME_STATE frame has been written to the socket
NoFrame == [type |-> ""]

InitServer ==
    /\ players = EmptyMap
    /\ socket_to_player = EmptyMap
    /\ player_last_ping = EmptyMap
    /\ rooms = EmptyMap
    /\ next_room_id = 1
    /\ rooms_mutex = 0
    /\ blocked = {}
    /\ burned = EmptyMap
    /\ lastReq = NoReq
    /\ replies = <<>>
    /\ moves = 0
    /\ conn = [s \in Sockets |-> ""]
    /\ cleanup_players = <<>>
    /\ unsent = [s \in Sockets |-> <<>>]
    /\ delivered = [s \in Sockets |-> NoFrame]

Init == InitServer /\ probe = NoProbe

InitRules == InitServer /\ probe \in RuleProbes

\* The clients of a game run: each name connects on its own socket
GameClients == {<<1, "a">>, <<2, "b">>, <<3, "c">>}

\* A token that is no card, and a card of the full deck
ExtraTokens == {<<"R", "E", "S", "E", "R", "V", "E">>, <<"1", "0", "H">>}

handTokens(client_socket) ==
    LET player_name == getPlayerIdFromSocket(Cur.pm, client_socket)
        room_id == getPlayerRoom(Cur.pm, player_name)
        hand == IF room_id \in DOMAIN rooms
                THEN getPlayerHand(rooms[room_id].gameLogic, player_name) ELSE <<>>
    IN {toString(hand[i]) : i \in 1..Len(hand)}

\* The cards fields tried by a client: nothing, one token, or two held cards
PlayInputs(client_socket) ==
    {<<>>} \cup {<<t>> : t \in handTokens(client_socket) \cup ExtraTokens}
           \cup {<<t, u>> : t, u \in handTokens(client_socket)}

NextGame ==
    \/ \E c \in GameClients : Connect(c[1], c[2])
    \/ \E s \in Sockets, o \in JoinOutcomes : JoinRoom(s, o)
    \/ \E s \in Sockets : LeaveRoom(s)
    \/ \E s \in Sockets, k \in 0..(MaxShuffles - 1) : StartGame(s, k)
    \/ \E s \in Sockets : \E cards \in PlayInputs(s) : PlayCards(s, cards)
    \/ \E s \in Sockets : PickupPile(s)

SpecGame == Init /\ [][NextGame]_vars

\* The names used by the clients of a session run
SessionNames == {"a", "b"}

NextSession ==
    \/ \E s \in Sockets, n \in SessionNames : ConnectFind(s, n)
    \/ \E s \in Sockets : ConnectEmplace(s)
    \/ \E s \in Sockets, n \in SessionNames : Reconnect(s, n)
    \/ \E s \in Sockets : Close(s)
    \/ \E n \in SessionNames : PingTimeout(n)
    \/ \E n \in SessionNames : GraceExpiry(n)

SpecSession == Init /\ [][NextSession]_vars

NextRules ==
    \/ CallCanPlayOn
    \/ CallIsValidPlay
    \/ CallApplySpecialCardEffects
    \/ CallDrawCardsToHand

SpecRules == InitRules /\ [][NextRules]_vars

(***************************************************************************)
(* Runs that begin in a room: a, b and c are connected and two of them sit *)
(* in ROOM_1, which is the state of the server after one of the request    *)
(* sequences of Seatings.  The clients then start, play, pick up, leave,   *)
(* drop and come back, and the heartbeat supervisor runs.                  *)
(***************************************************************************)
MaxRoomMoves == 3

Arrivals ==
    <<[socket |-> 1, msg |-> Request("CONNECT", "a", <<>>)],
      [socket |-> 2, msg |-> Request("CONNECT", "b", <<>>)],
      [socket |-> 3, msg |-> Request("CONNECT", "c", <<>>)],
      [socket |-> 1, msg |-> Request("JOIN_ROOM", "", <<>>)],
      [socket |-> 2, msg |-> Request("JOIN_ROOM", "", <<>>)]>>

\* a and b seated; or b has left again and c has taken the seat
Seatings ==
    {Arrivals,
     Arrivals \o <<[socket |-> 2, msg |-> Request("LEAVE_ROOM", "", <<>>)],
                   [socket |-> 3, msg |-> Request("JOIN_ROOM", "", <<>>)]>>}

RECURSIVE serveAll(_, _, _)
serveAll(st, reqs, i) ==
    IF i > Len(reqs) THEN st
    ELSE serveAll(processMessage(st, reqs[i].msg, reqs[i].socket, 0).st, reqs, i + 1)

InitRoom ==
    /\ \E reqs \in Seatings :
         \E st \in {serveAll(Server(Registry(EmptyMap, EmptyMap, EmptyMap),
                                    EmptyMap, 1, EmptyMap), reqs, 1)} :
            /\ players = st.pm.players
            /\ socket_to_player = st.pm.socket_to_player
            /\ player_last_ping = earlier(st.pm.player_last_ping)
            /\ rooms = st.rooms
            /\ next_room_id = st.next_room_id
            /\ burned = st.burned
    /\ rooms_mutex = 0
    /\ blocked = {}
    /\ lastReq = NoReq
    /\ replies = <<>>
    /\ moves = MaxMoves - MaxRoomMoves
    /\ conn = [s \in Sockets |-> ""]
    /\ cleanup_players = <<>>
    /\ unsent = [s \in Sockets |-> <<>>]
    /\ delivered = [s \in Sockets |-> NoFrame]
    /\ probe = NoProbe

NextRoom ==
    \/ \E s \in Sockets, k \in 0..(MaxShuffles - 1) : StartGame(s, k)
    \/ \E s \in Sockets : \E cards \in PlayInputs(s) : PlayCards(s, cards)
    \/ \E s \in Sockets : PickupPile(s)
    \/ \E s \in Sockets : LeaveRoom(s)
    \/ \E c \in GameClients : Reconnect(c[1], c[2])
    \/ \E s \in Sockets : Close(s)
    \/ \E n \in Names : PingTimeout(n)
    \/ \E n \in Names : GraceExpiry(n)

SpecRoom == InitRoom /\ [][NextRoom]_vars

\* Runs in which clients connect, join, start games, send frames that are
\* refused, and go away
NextLink ==
    \/ \E c \in GameClients : Connect(c[1], c[2])
    \/ \E s \in Sockets, o \in JoinOutcomes : JoinRoom(s, o)
    \/ \E s \in Sockets, k \in 0..(MaxShuffles - 1) : StartGame(s, k)
    \/ \E s \in Sockets : Close(s)
    \/ \E s \in Sockets, raw \in BadFrames : Violation(s, raw)

SpecLink == Init /\ [][NextLink]_vars

\* Runs in a room, and direct calls of the rule functions in runs of their own
InitPlay == InitRoom \/ InitRules

NextPlay == NextRoom \/ NextRules

SpecPlay == InitPlay /\ [][NextPlay]_vars

(***************************************************************************)
(* Properties.                                                             *)
(***************************************************************************)
Count(v, x) == Cardinality({i \in 1..Len(v) : v[i] = x})

RECURSIVE handsAndReserves(_, _)
handsAndReserves(ps, i) ==
    IF i > Len(ps) THEN <<>>
    ELSE ps[i].hand \o ps[i].reserves \o handsAndReserves(ps, i + 1)

\* every place a card of the room can be in
cardsOf(rs, bn, room_id) ==
    rs[room_id].gameLogic.deck \o rs[room_id].gameLogic.discardPile
        \o handsAndReserves(rs[room_id].gameLogic.players, 1) \o bn[room_id]

\* each card of the deck built at START_GAME is in exactly one place
Conserved(rs, bn, room_id) ==
    room_id \in DOMAIN rs =>
        \A c \in AllCards :
            Count(cardsOf(rs, bn, room_id), c)
                = IF c \in SeqToSet(initializeStandardDeck) THEN 1 ELSE 0

\* the step just taken served a request of this type that reached its handler
ServedStep(type) ==
    /\ lastReq'.type = type
    /\ lastReq'.socket \in Sockets
    /\ lastReq'.socket \notin blocked'
    /\ vars' # vars

senderOf(req) == getPlayerIdFromSocket(Cur.pm, req.socket)

roomOf(req) == getPlayerRoom(Cur.pm, senderOf(req))

\* the cards a request names, as the handler parses them
RECURSIVE parsedCards(_, _)
parsedCards(tokens, i) ==
    IF i > Len(tokens) THEN <<>>
    ELSE IF parseCardFromString(tokens[i]).threw THEN <<>>
    ELSE <<parseCardFromString(tokens[i]).card>> \o parsedCards(tokens, i + 1)

\* C1: the START_GAME that starts a game puts every card of the deck it builds
\* in exactly one of the draw deck, the discard pile, a hand, a reserve or the
\* burned cards, and every accepted PLAY_CARDS and PICKUP_PILE keeps it so: no
\* card is duplicated and none is lost.
C1_CardConservation ==
    [][/\ (/\ ServedStep("START_GAME")
           /\ replies'[1].type = "GAME_STARTED"
           /\ rooms[roomOf(lastReq')].gameLogic.gameState = "WAITING_FOR_PLAYERS")
          => Conserved(rooms', burned', roomOf(lastReq'))
       /\ (/\ \/ ServedStep("PLAY_CARDS")
              \/ ServedStep("PICKUP_PILE")
           /\ replies'[1].type = "TURN_RESULT"
           /\ Conserved(rooms, burned, roomOf(lastReq')))
          => Conserved(rooms', burned', roomOf(lastReq'))]_vars

\* the game of the sender's room as an accepted PLAY_CARDS leaves it
playedGame(req) ==
    GameLogic_playCards(rooms[roomOf(req)].gameLogic, senderOf(req),
                        parsedCards(req.cards, 1)).g

\* the step just taken accepted a PLAY_CARDS that left its sender no card
WinningPlay ==
    /\ ServedStep("PLAY_CARDS")
    /\ replies'[1].type = "TURN_RESULT"
    /\ hasPlayerWon(playedGame(lastReq'), senderOf(lastReq'))

\* C2: an accepted PLAY_CARDS that leaves its sender an empty hand and empty
\* reserves is answered with a GAME_OVER naming the sender as winner and a
\* ROOM_LEFT for every member of the room, clears every member's room and
\* destroys the room.
C2_WinEndsGame ==
    [][WinningPlay =>
        LET room_id == roomOf(lastReq')
            winner == senderOf(lastReq')
            members == SeqToSet(rooms[room_id].players)
        IN /\ \E i \in 1..Len(replies') :
                 /\ replies'[i].type = "GAME_OVER"
                 /\ replies'[i].data.winner = winner
           /\ \A m \in members :
                 /\ \E i \in 1..Len(replies') :
                       /\ replies'[i].type = "ROOM_LEFT"
                       /\ replies'[i].player_id = m
                 /\ m \in DOMAIN players' => players'[m].room_id = ""
           /\ room_id \notin DOMAIN rooms']_vars

\* No accepted PLAY_CARDS leaves its sender without a card: the deck holds 8
\* cards, so the first player of a game is dealt 3 reserves and the second 2,
\* and no request plays a reserve.
SenderKeepsCards == [][~WinningPlay]_vars

\* C5: a START_GAME sent while the game of the sender's room is not in the
\* Waiting phase is answered with an ERROR and leaves the room as it was.
C5_StartOnlyWhenWaiting ==
    [][(/\ ServedStep("START_GAME")
        /\ roomOf(lastReq') \in DOMAIN rooms
        /\ rooms[roomOf(lastReq')].gameLogic.gameState # "WAITING_FOR_PLAYERS")
       => (/\ Len(replies') = 1
           /\ replies'[1].type = "ERROR_MSG"
           /\ rooms' = rooms)]_vars

\* C6: right after a START_GAME accepted in a room of two members, 52 distinct
\* cards are in the game, each member holds 3 hand and 3 reserve cards, the
\* discard pile holds 1 card, the deck 43, the turn is at index 0, the game is
\* Active with must_play_seven_or_lower clear, and exactly one GAME_STATE of
\* the batch says your_turn.
C6_DealOfTwo ==
    \A room_id \in DOMAIN rooms :
        (/\ lastReq.type = "START_GAME"
         /\ Len(replies) >= 1
         /\ replies[1].type = "GAME_STARTED"
         /\ replies[1].room_id = room_id
         /\ Len(rooms[room_id].players) = 2)
        => LET g == rooms[room_id].gameLogic
           IN /\ Len(cardsOf(rooms, burned, room_id)) = 52
              /\ Cardinality(SeqToSet(cardsOf(rooms, burned, room_id))) = 52
              /\ \A i \in 1..2 :
                    /\ getPlayerHandSize(g, rooms[room_id].players[i]) = 3
                    /\ getPlayerReserveSize(g, rooms[room_id].players[i]) = 3
              /\ Len(g.discardPile) = 1
              /\ Len(g.deck) = 43
              /\ g.currentPlayerIndex = 0
              /\ isGameActive(rooms[room_id])
              /\ ~g.mustPlaySevenOrLower
              /\ Cardinality({i \in 1..Len(replies) :
                                 /\ replies[i].type = "GAME_STATE"
                                 /\ replies[i].data.your_turn}) = 1

\* C7: a PLAY_CARDS is accepted only if the sender's hand holds every named
\* card at least as often as the request names it.
C7_PlayedFromHand ==
    [][(/\ ServedStep("PLAY_CARDS")
        /\ replies'[1].type = "TURN_RESULT")
       => \A c \in AllCards :
              Count(parsedCards(lastReq'.cards, 1), c)
                  <= Count(getPlayerHand(rooms[roomOf(lastReq')].gameLogic,
                                         senderOf(lastReq')), c)]_vars

\* C8: the cards of an accepted PLAY_CARDS of more than one card all have the
\* same rank, whatever the discard pile holds.
C8_OneRankPerPlay ==
    [][(/\ ServedStep("PLAY_CARDS")
        /\ replies'[1].type = "TURN_RESULT")
       => \A i, j \in 1..Len(lastReq'.cards) :
              parseCardFromString(lastReq'.cards[i]).card.rank
                  = parseCardFromString(lastReq'.cards[j]).card.rank]_vars

\* the error a CONNECT of a registered name is answered with
NameTakenReply == createErrorResponse("Connection failed - name already taken")

\* C3: a CONNECT that names a player whose record exists, connected or
\* temporarily disconnected, is answered with the name-taken ERROR and leaves
\* the records and the socket map as they were.
C3_ConnectUnique ==
    [][(/\ lastReq'.type = "CONNECT"
        /\ lastReq'.socket \in Sockets
        /\ conn[lastReq'.socket] = ""
        /\ lastReq'.name \in DOMAIN players
        /\ vars' # vars)
       => (/\ replies' = <<NameTakenReply>>
           /\ players' = players
           /\ socket_to_player' = socket_to_player
           /\ conn'[lastReq'.socket] = "")]_vars

\* a CONNECT of a temporarily disconnected name was refused
C3_Witness ==
    /\ lastReq.type = "CONNECT"
    /\ lastReq.name \in DOMAIN players
    /\ players[lastReq.name].temporarily_disconnected
    /\ lastReq.socket \notin DOMAIN socket_to_player
    /\ replies = <<NameTakenReply>>

\* C4: a CONNECT is answered CONNECTED only if no record of the name exists
\* when the answer is given, and no two sockets are mapped to one name.
C4_RegistryAtomic ==
    [][/\ (/\ lastReq'.type = "CONNECT"
           /\ Len(replies') = 1
           /\ replies'[1].type = "CONNECTED"
           /\ vars' # vars)
          => lastReq'.name \notin DOMAIN players
       /\ \A s1, s2 \in DOMAIN socket_to_player' :
              socket_to_player'[s1] = socket_to_player'[s2] => s1 = s2]_vars

\* the probe called a rule function on one card
SingleProbe == probe.fn \in {"canPlayOn", "isValidPlay"} /\ Len(probe.cards) = 1

\* C9: a 10 is accepted on every top card, with must_play_seven_or_lower set
\* or clear.
C9_TenAlwaysValid ==
    (SingleProbe /\ probe.cards[1].rank = TEN) => probe.result

\* the rank part of a card's wire form
rankToken(card) == SubSeq(toString(card), 1, Len(toString(card)) - 1)

AceLowOrder ==
    << <<"A">>, <<"2">>, <<"3">>, <<"4">>, <<"5">>, <<"6">>, <<"7">>, <<"8">>,
       <<"9">>, <<"1", "0">>, <<"J">>, <<"Q">>, <<"K">> >>

AceHighOrder ==
    << <<"2">>, <<"3">>, <<"4">>, <<"5">>, <<"6">>, <<"7">>, <<"8">>,
       <<"9">>, <<"1", "0">>, <<"J">>, <<"Q">>, <<"K">>, <<"A">> >>

placeIn(order, card) == CHOOSE i \in 1..Len(order) : order[i] = rankToken(card)

\* the ordinary comparison rule applies to the probe
OrdinaryProbe ==
    /\ SingleProbe
    /\ probe.cards[1].rank \notin {TWO, TEN}
    /\ probe.topCard.rank # TWO
    /\ ~probe.mustPlaySevenOrLower

\* C10 as stated: under the ordinary rule a card is accepted iff its value is
\* at least the top card's, with the Ace the lowest value (A=1).
C10_AceLow ==
    OrdinaryProbe =>
        (probe.result <=> placeIn(AceLowOrder, probe.cards[1])
                              >= placeIn(AceLowOrder, probe.topCard))

\* C10: under the ordinary rule a card is accepted iff its value is at least
\* the top card's, with the Ace the highest value (2..10, J=11, Q=12, K=13,
\* A=14): an Ace is accepted on every top card, and only an Ace on an Ace.
C10_AceHigh ==
    OrdinaryProbe =>
        (probe.result <=> placeIn(AceHighOrder, probe.cards[1])
                              >= placeIn(AceHighOrder, probe.topCard))

\* an Ace was accepted on a King
C10_Witness ==
    /\ OrdinaryProbe
    /\ probe.cards[1].rank = ACE
    /\ probe.topCard.rank = KING
    /\ probe.result

\* a request of the given type was served and not answered by an error
AcceptedStep(type) ==
    /\ ServedStep(type)
    /\ Len(replies') > 0
    /\ replies'[1].type # "ERROR_MSG"

hasRank(cards, r) == \E i \in 1..Len(cards) : cards[i].rank = r

atTurn(req) ==
    /\ roomOf(req) \in DOMAIN rooms
    /\ isGameActive(rooms[roomOf(req)])
    /\ isPlayerTurn(rooms[roomOf(req)].gameLogic, senderOf(req))

ReserveToken == <<"R", "E", "S", "E", "R", "V", "E">>

\* C13: a PLAY_CARDS that carries the token RESERVE, sent by the player at the
\* turn whose hand is empty and whose reserves are not, is accepted and takes
\* exactly one card, the last, from the sender's reserves: the card lies on
\* top of the pile, or the pile is empty, the flag is cleared and the card is
\* in the sender's hand.
C13_ReservePlay ==
    [][(/\ ServedStep("PLAY_CARDS")
        /\ lastReq'.cards = <<ReserveToken>>
        /\ atTurn(lastReq')
        /\ getPlayerHandSize(rooms[roomOf(lastReq')].gameLogic, senderOf(lastReq')) = 0
        /\ getPlayerReserveSize(rooms[roomOf(lastReq')].gameLogic, senderOf(lastReq')) > 0)
       => LET room_id == roomOf(lastReq')
              g == rooms[room_id].gameLogic
              idx == getPlayerIndex(g, senderOf(lastReq')) + 1
              revealed == back(g.players[idx].reserves)
          IN /\ replies'[1].type = "TURN_RESULT"
             /\ room_id \in DOMAIN rooms'
                  => LET h == rooms'[room_id].gameLogic
                     IN /\ h.players[idx].reserves = pop_back(g.players[idx].reserves)
                        /\ \/ /\ h.discardPile # <<>>
                              /\ back(h.discardPile) = revealed
                           \/ /\ h.discardPile = <<>>
                              /\ ~h.mustPlaySevenOrLower
                              /\ findInHand(h.players[idx].hand, revealed) # 0]_vars

\* the game of a room apart from one player's hand
exceptHand(g, idx) == [g EXCEPT !.players[idx].hand = <<>>]

\* C14: PICKUP_PILE is accepted exactly when its sender is at the turn in an
\* Active game whose discard pile is not empty.  An accepted one appends the
\* pile to the sender's hand, empties the pile, clears
\* must_play_seven_or_lower and moves the turn to the next player, and leaves
\* the deck, all reserves and the other hands as they were; a rejected one
\* leaves the rooms as they were.
C14_PickupPile ==
    [][ServedStep("PICKUP_PILE")
       => LET room_id == roomOf(lastReq')
              allowed == /\ atTurn(lastReq')
                         /\ rooms[room_id].gameLogic.discardPile # <<>>
          IN /\ AcceptedStep("PICKUP_PILE") <=> allowed
             /\ ~allowed => rooms' = rooms
             /\ allowed
                  => LET g == rooms[room_id].gameLogic
                         h == rooms'[room_id].gameLogic
                         idx == getPlayerIndex(g, senderOf(lastReq')) + 1
                     IN /\ room_id \in DOMAIN rooms'
                        /\ h.players[idx].hand = g.players[idx].hand \o g.discardPile
                        /\ h.discardPile = <<>>
                        /\ ~h.mustPlaySevenOrLower
                        /\ h.currentPlayerIndex
                               = (g.currentPlayerIndex + 1) % Len(g.players)
                        /\ exceptHand(h, idx)
                               = exceptHand([g EXCEPT
                                               !.discardPile = <<>>,
                                               !.mustPlaySevenOrLower = FALSE,
                                               !.currentPlayerIndex = h.currentPlayerIndex],
                                            idx)
                        /\ \A r \in DOMAIN rooms \ {room_id} :
                              r \in DOMAIN rooms' /\ rooms'[r] = rooms[r]]_vars

\* b has taken the pile: the last request served is an accepted PICKUP_PILE
C14_Witness ==
    /\ lastReq.type = "PICKUP_PILE"
    /\ Len(replies) > 0
    /\ replies[1].type = "TURN_RESULT"
    /\ \E r \in DOMAIN rooms :
          /\ rooms[r].gameLogic.discardPile = <<>>
          /\ \E i \in 1..Len(rooms[r].gameLogic.players) :
                /\ rooms[r].gameLogic.players[i].playerId = senderOf(lastReq)
                /\ Len(rooms[r].gameLogic.players[i].hand) > 0

\* C15: a PLAY_CARDS whose sender is not the player at current_index of the
\* game of its room is answered by an error and changes neither the rooms nor
\* the player records; after an accepted PLAY_CARDS that leaves the game
\* running, current_index is the old one plus 1 modulo the number of players
\* in the game.
C15_TurnOrder ==
    [][ServedStep("PLAY_CARDS") /\ roomOf(lastReq') \in DOMAIN rooms
       => LET room_id == roomOf(lastReq')
              g == rooms[room_id].gameLogic
          IN /\ ~isPlayerTurn(g, senderOf(lastReq'))
                  => (/\ replies'[1].type = "ERROR_MSG"
                      /\ rooms' = rooms
                      /\ players' = players
                      /\ socket_to_player' = socket_to_player)
             /\ (/\ replies'[1].type = "TURN_RESULT"
                 /\ room_id \in DOMAIN rooms'
                 /\ rooms'[room_id].gameLogic.gameState = "GAME_STARTED")
                  => rooms'[room_id].gameLogic.currentPlayerIndex
                         = (g.currentPlayerIndex + 1) % Len(g.players)]_vars

\* a play was accepted and the turn has moved on to the second player
C15_Witness ==
    /\ lastReq.type = "PLAY_CARDS"
    /\ Len(replies) > 0
    /\ replies[1].type = "TURN_RESULT"
    /\ \E r \in DOMAIN rooms :
          /\ rooms[r].gameLogic.gameState = "GAME_STARTED"
          /\ rooms[r].gameLogic.currentPlayerIndex = 1

\* C16: in a game that has been started, a player of the game whose hand and
\* reserves are both empty exists only when the game is finished; no game in
\* state GAME_STARTED has a player without cards.
C16_NoPlayerWithoutCards ==
    \A r \in DOMAIN rooms :
        LET g == rooms[r].gameLogic
        IN g.gameState # "WAITING_FOR_PLAYERS"
           => \A i \in 1..Len(g.players) :
                  (g.players[i].hand = <<>> /\ g.players[i].reserves = <<>>)
                  => g.gameState = "GAME_FINISHED"

\* the player is in the member list of a room that exists
seated(rs, player_name) == \E r \in DOMAIN rs : inVector(rs[r].players, player_name)

\* C17: every player record whose player is in the member list of no existing
\* room has the empty room_id, whether the player is connected or temporarily
\* disconnected.
C17_NoDanglingRoom ==
    \A n \in DOMAIN players : ~seated(rooms, n) => players[n].room_id = ""

\* C18: a RECONNECT succeeds exactly when a record of the name exists and is
\* temporarily disconnected.  Otherwise the single reply is an error and the
\* records, the socket map and the rooms are as before.  On success the record
\* is connected, not temporarily disconnected, bound to the socket of the
\* request, which the socket map maps to the name, its room is as before and
\* its last_ping is the time of this step.
C18_Reconnect ==
    [][(ServedStep("RECONNECT") /\ lastReq'.name # "")
       => LET n == lastReq'.name
              known == n \in DOMAIN players /\ players[n].temporarily_disconnected
          IN /\ replies'[1].type = "CONNECTED" <=> known
             /\ ~known => (/\ Len(replies') = 1
                           /\ replies'[1].type = "ERROR_MSG"
                           /\ players' = players
                           /\ socket_to_player' = socket_to_player
                           /\ rooms' = rooms)
             /\ known => (/\ n \in DOMAIN players'
                          /\ players'[n] = [players[n] EXCEPT
                                               !.connected = TRUE,
                                               !.temporarily_disconnected = FALSE,
                                               !.socket_fd = lastReq'.socket]
                          /\ lastReq'.socket \in DOMAIN socket_to_player'
                          /\ socket_to_player'[lastReq'.socket] = n
                          /\ n \in DOMAIN player_last_ping'
                          /\ player_last_ping'[n] = "now")]_vars

\* a, dropped by the close of its socket, is back on socket 2
C18_Witness ==
    /\ lastReq.type = "RECONNECT"
    /\ lastReq.socket = 2
    /\ "a" \in DOMAIN players
    /\ players["a"].connected
    /\ players["a"].socket_fd = 2
    /\ player_last_ping["a"] = "now"

\* the members of the room other than the player, in member order
othersIn(rs, room_id, player_name) ==
    IF room_id \in DOMAIN rs
    THEN SelectSeq(rs[room_id].players, LAMBDA m : m # player_name)
    ELSE <<>>

\* C19: the replies to a successful RECONNECT are, in this order, a CONNECTED
\* reply, then a GAME_STATE for the player if the game of the player's room is
\* Active, then one PLAYER_RECONNECTED for each other member of the player's
\* room, addressed to that member.
C19_ReconnectReplies ==
    [][(ServedStep("RECONNECT") /\ replies'[1].type = "CONNECTED")
       => LET n == lastReq'.name
              room_id == players[n].room_id
              others == othersIn(rooms, room_id, n)
              k == IF room_id \in DOMAIN rooms /\ isGameActive(rooms[room_id])
                   THEN 1 ELSE 0
          IN /\ Len(replies') = 1 + k + Len(others)
             /\ k = 1 => (/\ replies'[2].type = "GAME_STATE"
                          /\ replies'[2].player_id = n)
             /\ \A i \in 1..Len(others) :
                    /\ replies'[1 + k + i].type = "PLAYER_RECONNECTED"
                    /\ replies'[1 + k + i].player_id = others[i]
                    /\ replies'[1 + k + i].data.reconnected_player = n]_vars

\* replies i and i + 1 are the GAME_OVER and the ROOM_LEFT the supervisor sends
\* to member m when the opponent's reconnection window has expired
toldGameOver(batch, i, m) ==
    /\ i + 1 <= Len(batch)
    /\ batch[i].type = "GAME_OVER"
    /\ batch[i].player_id = m
    /\ batch[i].data.winner = m
    /\ batch[i].data.reason = "opponent_disconnect"
    /\ batch[i + 1].type = "ROOM_LEFT"
    /\ batch[i + 1].player_id = m

\* C20: when the supervisor cleans up a temporarily disconnected player whose
\* reconnection window has expired, the player's record is destroyed; and if
\* the game of the player's room was Active, every other member of the room
\* is sent GAME_OVER naming that member the winner with reason
\* opponent_disconnect and then ROOM_LEFT, has its room_id cleared, and the
\* room is destroyed.
C20_GraceExpiry ==
    [][(lastReq'.type = "expiry" /\ vars' # vars)
       => LET n == lastReq'.name
              room_id == players[n].room_id
          IN /\ n \notin DOMAIN players'
             /\ (room_id \in DOMAIN rooms /\ isGameActive(rooms[room_id]))
                  => (/\ room_id \notin DOMAIN rooms'
                      /\ \A j \in 1..Len(othersIn(rooms, room_id, n)) :
                            LET m == othersIn(rooms, room_id, n)[j]
                            IN /\ \E i \in 1..Len(replies') : toldGameOver(replies', i, m)
                               /\ m \in DOMAIN players' => players'[m].room_id = "")]_vars

\* the same for the other members that are connected when the window expires
ExpiryReachesConnected ==
    [][(lastReq'.type = "expiry" /\ vars' # vars)
       => LET n == lastReq'.name
              room_id == players[n].room_id
          IN /\ n \notin DOMAIN players'
             /\ (room_id \in DOMAIN rooms /\ isGameActive(rooms[room_id]))
                  => (/\ room_id \notin DOMAIN rooms'
                      /\ \A j \in 1..Len(othersIn(rooms, room_id, n)) :
                            LET m == othersIn(rooms, room_id, n)[j]
                            IN (m \in DOMAIN players /\ players[m].connected)
                               => (/\ \E i \in 1..Len(replies') :
                                        toldGameOver(replies', i, m)
                                   /\ players'[m].room_id = ""))]_vars

\* the frames handleClient wrote for the reply batch of the step that led here
written == sendResponses(Cur.pm, lastReq.socket, replies)

\* a ROOM_LEFT frame was written to the socket
roomLeftOn(frames, socket) ==
    \E f \in frames : f.socket = socket /\ f.msg.type = "ROOM_LEFT"

\* C21: after a successful LEAVE_ROOM the sender is a member of no room and has
\* the empty room_id, the room is gone iff the sender was its last member, and
\* a ROOM_LEFT frame is written to the sender's socket and to the socket of
\* every remaining member that is connected.
C21_LeaveRoom ==
    [][AcceptedStep("LEAVE_ROOM")
       => LET n == senderOf(lastReq')
              room_id == roomOf(lastReq')
              others == othersIn(rooms, room_id, n)
          IN /\ ~seated(rooms', n)
             /\ players'[n].room_id = ""
             /\ (room_id \notin DOMAIN rooms') <=> (Len(others) = 0)
             /\ roomLeftOn(written', lastReq'.socket)
             /\ \A i \in 1..Len(others) :
                    hasSocket(Cur.pm, others[i])
                    => roomLeftOn(written', players[others[i]].socket_fd)]_vars

\* the state part of C21: membership, room_id and the fate of the room
LeaveRoomState ==
    [][AcceptedStep("LEAVE_ROOM")
       => LET n == senderOf(lastReq')
              room_id == roomOf(lastReq')
          IN /\ ~seated(rooms', n)
             /\ players'[n].room_id = ""
             /\ (room_id \notin DOMAIN rooms')
                    <=> (Len(othersIn(rooms, room_id, n)) = 0)]_vars

\* the step just taken is a JOIN_ROOM sent by a connected player in the lobby
LobbyJoin ==
    /\ lastReq'.type = "JOIN_ROOM"
    /\ lastReq'.socket \notin blocked
    /\ vars' # vars
    /\ senderOf(lastReq') # ""
    /\ roomOf(lastReq') = ""

\* what C22 asks of a JOIN_ROOM step of player n
joinedAsAsked(n) ==
    LET open == {r \in DOMAIN rooms : Len(rooms[r].players) = 1}
        room_id == players'[n].room_id
    IN /\ IF open # {}
          THEN /\ room_id \in open
               /\ DOMAIN rooms' = DOMAIN rooms
          ELSE /\ room_id = RoomName(next_room_id)
               /\ DOMAIN rooms' = DOMAIN rooms \cup {room_id}
       /\ room_id \in DOMAIN rooms'
       /\ rooms'[room_id].players = Append(getRoomPlayers(Cur, room_id), n)
       /\ \E f \in written' :
            /\ f.socket = lastReq'.socket
            /\ f.msg.type = "ROOM_JOINED"
            /\ f.msg.room_id = room_id
            /\ f.msg.data.players = rooms'[room_id].players
            /\ f.msg.data.room_full = (Len(rooms'[room_id].players) = 2)
       /\ \A m \in SeqToSet(getRoomPlayers(Cur, room_id)) :
            hasSocket(Cur.pm, m)
            => \E f \in written' : /\ f.socket = players[m].socket_fd
                                   /\ f.msg.type = "ROOM_JOINED"
                                   /\ f.msg.room_id = room_id

\* C22: a JOIN_ROOM of a connected player in the lobby seats the player in an
\* existing room with exactly one member if there is one, creating no room,
\* and otherwise in a newly created room ROOM_<n>; the sender is written a
\* ROOM_JOINED with the room id, the member list and room_full = (two members)
\* and every present member that is connected is written a ROOM_JOINED; no
\* room ever has more than two members.
C22_JoinRoom ==
    [][/\ LobbyJoin => joinedAsAsked(senderOf(lastReq'))
       /\ \A r \in DOMAIN rooms' : Len(rooms'[r].players) <= 2]_vars

\* C22 for the requests whose second lock of rooms_mutex went through: it fails
\* too, once a member of a room has sent JOIN_ROOM again
JoinRoomWhenLockPasses ==
    [][/\ (LobbyJoin /\ AcceptedStep("JOIN_ROOM")) => joinedAsAsked(senderOf(lastReq'))
       /\ \A r \in DOMAIN rooms' : Len(rooms'[r].players) <= 2]_vars

\* C23: every request is answered: no worker stays blocked for ever in a lock
\* of rooms_mutex or of players_mutex, whatever the type of the request.
C23_HandlersTerminate == blocked = {}

\* C24: at no time do more rooms exist than the configured max_rooms.
C24_MaxRooms == Cardinality(DOMAIN rooms) <= max_rooms

\* the step just taken ended the worker of a socket that a player was bound to
TornDown(type) ==
    /\ lastReq'.type = type
    /\ vars' # vars
    /\ senderOf(lastReq') # ""

\* what C25 asks of the end of a worker, with the status its cause gives
tornDownAsAsked(status) ==
    LET n == senderOf(lastReq')
        room_id == roomOf(lastReq')
        t == teardown(Cur, lastReq'.socket, status)
    IN /\ players'[n] = [players[n] EXCEPT !.connected = FALSE,
                                           !.temporarily_disconnected = TRUE,
                                           !.socket_fd = -1]
       /\ rooms' = rooms
       /\ lastReq'.socket \notin DOMAIN socket_to_player'
       /\ lastReq'.closes = 1
       /\ \A m \in SeqToSet(othersIn(rooms, room_id, n)) :
            hasSocket(Cur.pm, m)
            => \E f \in t.frames : /\ f.socket = players[m].socket_fd
                                   /\ f.msg.type = "PLAYER_DISCONNECTED"
                                   /\ f.msg.data.disconnected_player = n
                                   /\ f.msg.data.status = status

\* C25: when the worker of a socket ends because the peer closed or because a
\* reply carried disconnect=true, and a player is bound to the socket, the
\* record ends disconnected, temporarily_disconnected and without socket, the
\* rooms and games are as before, every other connected member of the room is
\* written PLAYER_DISCONNECTED with status temporarily_disconnected (peer
\* close) or invalid_message (refused frame), the socket map has no entry for
\* the socket and the socket is closed once.  A request that reaches a handler
\* gets no reply with disconnect=true and keeps its socket bound, whatever
\* error it is answered with.
C25_Teardown ==
    [][/\ TornDown("close") => tornDownAsAsked("temporarily_disconnected")
       /\ TornDown("violation") => tornDownAsAsked("invalid_message")
       /\ (lastReq'.socket \in Sockets /\ lastReq'.type \notin {"close", "violation"})
          => /\ \A i \in 1..Len(replies') : "disconnect" \notin DOMAIN replies'[i].data
             /\ lastReq'.closes = 0
             /\ lastReq'.socket \in DOMAIN socket_to_player
                => lastReq'.socket \in DOMAIN socket_to_player']_vars

\* the replies after the first are one GAME_STATE for each member, in member
\* order, each the member's own view of the game g
statesForMembers(batch, members, room_id, g) ==
    /\ Len(batch) = 1 + Len(members)
    /\ \A i \in 1..Len(members) :
         /\ batch[1 + i].type = "GAME_STATE"
         /\ batch[1 + i].player_id = members[i]
         /\ batch[1 + i].room_id = room_id
         /\ batch[1 + i].data.hand = convertCardsToStrings(getPlayerHand(g, members[i]))
         /\ batch[1 + i].data.reserves = getPlayerReserveSize(g, members[i])
         /\ batch[1 + i].data.current_player = getCurrentPlayer(g)
         /\ batch[1 + i].data.your_turn = (members[i] = getCurrentPlayer(g))
         /\ batch[1 + i].data.must_play_low = g.mustPlaySevenOrLower
         /\ batch[1 + i].data.deck_size = Len(g.deck)
         /\ batch[1 + i].data.discard_pile_size = Len(g.discardPile)

DrawWitness ==
    /\ probe.fn = "drawCardsToHand"
    /\ Len(probe.cards) = 2
    /\ Len(probe.pile) = 3
    /\ ~probe.result

\* ---------------------------------------------------------------------
\* Wire format: ProtocolMessage::serialize and ProtocolMessage::parse.
\* Strings are sequences of characters; a wire message carries its type as
\* the integer of the MessageType enum and its data as a map of strings.
\* ---------------------------------------------------------------------

PING == 4

ERROR_MSG == 103

\* field names and status values with their compact codes
FIELD_CODE_MAP ==
    <<
       <<<<"h", "a", "n", "d">>,
         <<"h">>>>,
       <<<<"r", "e", "s", "e", "r", "v", "e", "s">>,
         <<"r">>>>,
       <<<<"o", "p", "p", "o", "n", "e", "n", "t", "_", "h", "a", "n", "d">>,
         <<"o", "h">>>>,
       <<<<"o", "p", "p", "o", "n", "e", "n", "t", "_", "r", "e", "s", "e", "r", "v", "e", "s">>,
         <<"o", "r">>>>,
       <<<<"o", "p", "p", "o", "n", "e", "n", "t", "_", "n", "a", "m", "e">>,
         <<"o", "n">>>>,
       <<<<"t", "o", "p", "_", "c", "a", "r", "d">>,
         <<"t", "c">>>>,
       <<<<"d", "i", "s", "c", "a", "r", "d", "_", "p", "i", "l", "e", "_", "s", "i", "z", "e">>,
         <<"d", "p">>>>,
       <<<<"d", "e", "c", "k", "_", "s", "i", "z", "e">>,
         <<"d", "k">>>>,
       <<<<"m", "u", "s", "t", "_", "p", "l", "a", "y", "_", "l", "o", "w">>,
         <<"m", "l">>>>,
       <<<<"y", "o", "u", "r", "_", "t", "u", "r", "n">>,
         <<"y", "t">>>>,
       <<<<"c", "u", "r", "r", "e", "n", "t", "_", "p", "l", "a", "y", "e", "r">>,
         <<"c", "p">>>>,
       <<<<"s", "t", "a", "t", "u", "s">>,
         <<"s", "t">>>>,
       <<<<"n", "a", "m", "e">>,
         <<"n", "m">>>>,
       <<<<"e", "r", "r", "o", "r">>,
         <<"e", "r">>>>,
       <<<<"r", "e", "s", "u", "l", "t">>,
         <<"r", "s">>>>,
       <<<<"c", "a", "r", "d", "s">>,
         <<"c", "d">>>>,
       <<<<"w", "i", "n", "n", "e", "r">>,
         <<"w", "n">>>>,
       <<<<"r", "e", "c", "o", "n", "n", "e", "c", "t", "e", "d", "_", "p", "l", "a", "y", "e", "r">>,
         <<"r", "p">>>>,
       <<<<"d", "i", "s", "c", "o", "n", "n", "e", "c", "t", "e", "d", "_", "p", "l", "a", "y", "e", "r">>,
         <<"d", "c">>>>,
       <<<<"b", "r", "o", "a", "d", "c", "a", "s", "t", "_", "t", "y", "p", "e">>,
         <<"b", "t">>>>,
       <<<<"j", "o", "i", "n", "e", "d", "_", "p", "l", "a", "y", "e", "r">>,
         <<"j", "p">>>>,
       <<<<"p", "l", "a", "y", "e", "r", "s">>,
         <<"p", "l">>>>,
       <<<<"p", "l", "a", "y", "e", "r", "_", "c", "o", "u", "n", "t">>,
         <<"p", "c">>>>,
       <<<<"r", "o", "o", "m", "_", "f", "u", "l", "l">>,
         <<"r", "f">>>>,
       <<<<"d", "i", "s", "c", "o", "n", "n", "e", "c", "t">>,
         <<"d", "i", "s", "c">>>>,
       <<<<"m", "e", "s", "s", "a", "g", "e">>,
         <<"m", "s", "g">>>>,
       <<<<"r", "e", "a", "s", "o", "n">>,
         <<"r", "s", "n">>>>,
       <<<<"t", "e", "m", "p", "o", "r", "a", "r", "i", "l", "y", "_", "d", "i", "s", "c", "o", "n", "n", "e", "c", "t", "e", "d">>,
         <<"t", "e", "m", "p">>>>,
       <<<<"r", "e", "c", "o", "n", "n", "e", "c", "t", "e", "d">>,
         <<"r", "e", "c", "o", "n">>>>,
       <<<<"s", "u", "c", "c", "e", "s", "s">>,
         <<"o", "k">>>>,
       <<<<"g", "a", "m", "e", "_", "o", "v", "e", "r">>,
         <<"e", "n", "d">>>>,
       <<<<"s", "t", "a", "r", "t", "e", "d">>,
         <<"s", "t", "a", "r", "t">>>>,
       <<<<"l", "e", "f", "t">>,
         <<"l", "f", "t">>>>,
       <<<<"t", "i", "m", "e", "d", "_", "o", "u", "t">>,
         <<"t", "o", "u", "t">>>>,
       <<<<"i", "n", "v", "a", "l", "i", "d", "_", "m", "e", "s", "s", "a", "g", "e">>,
         <<"i", "n", "v">>>>,
       <<<<"p", "l", "a", "y", "_", "s", "u", "c", "c", "e", "s", "s">>,
         <<"p", "o", "k">>>>,
       <<<<"p", "i", "c", "k", "u", "p", "_", "s", "u", "c", "c", "e", "s", "s">>,
         <<"u", "o", "k">>>>,
       <<<<"o", "p", "p", "o", "n", "e", "n", "t", "_", "d", "i", "s", "c", "o", "n", "n", "e", "c", "t">>,
         <<"o", "p", "d", "c">>>>,
       <<<<"r", "o", "o", "m", "_", "n", "o", "t", "i", "f", "i", "c", "a", "t", "i", "o", "n">>,
         <<"r", "n", "o", "t", "i", "f">>>>
    >>

\* the same pairs, keyed by the compact code
REVERSE_FIELD_CODE_MAP ==
    [i \in 1..Len(FIELD_CODE_MAP) |-> <<FIELD_CODE_MAP[i][2], FIELD_CODE_MAP[i][1]>>]

\* std::map::find on one of the two tables, then second or the argument itself
lookup(table, str) ==
    IF \E i \in 1..Len(table) : table[i][1] = str
    THEN table[CHOOSE i \in 1..Len(table) : table[i][1] = str][2]
    ELSE str

getCompactCode(field_name) == lookup(FIELD_CODE_MAP, field_name)

getFullFieldName(compact_code) == lookup(REVERSE_FIELD_CODE_MAP, compact_code)

\* the characters of the modelled strings in the order of their codes
CharOrder ==
    <<"-", "0", "1", "2", "3", "4", "5", "6", "7", "8", "9", "=", "R", "_",
      "a", "b", "c", "d", "e", "f", "g", "h", "i", "j", "k", "l", "m", "n",
      "o", "p", "q", "r", "s", "t", "u", "v", "w", "x", "y", "z", "|">>

ord(c) == CHOOSE i \in 1..Len(CharOrder) : CharOrder[i] = c

\* std::less<std::string>, the order in which std::map iterates its keys
RECURSIVE less(_, _)
less(s, t) ==
    IF Len(t) = 0 THEN FALSE
    ELSE IF Len(s) = 0 THEN TRUE
    ELSE IF s[1] # t[1] THEN ord(s[1]) < ord(t[1])
    ELSE less(Tail(s), Tail(t))

RECURSIVE keysInOrder(_)
keysInOrder(keys) ==
    IF keys = {} THEN <<>>
    ELSE LET first == CHOOSE k \in keys : \A other \in keys \ {k} : less(k, other)
         IN <<first>> \o keysInOrder(keys \ {first})

\* a message on the wire side: integer type, string ids, string map
WireMsg(type, player_id, room_id, data) ==
    [type |-> type, player_id |-> player_id, room_id |-> room_id, data |-> data]

\* operator<< of an int (types have at most three digits)
typeDigits(n) ==
    IF n < 100 THEN to_string(n)
    ELSE <<DigitChars[(n \div 100) + 1]>> \o
         <<DigitChars[((n \div 10) % 10) + 1], DigitChars[(n % 10) + 1]>>

RECURSIVE serializePairs(_, _)
serializePairs(data, keys) ==
    IF Len(keys) = 0 THEN <<>>
    ELSE LET compact_code == getCompactCode(keys[1])
             compact_value == getCompactCode(data[keys[1]])
         IN <<"|">> \o compact_code \o <<"=">> \o compact_value
                \o serializePairs(data, Tail(keys))

\* ProtocolMessage::serialize
serialize(msg) ==
    typeDigits(msg.type) \o <<"|">> \o msg.player_id \o <<"|">> \o msg.room_id
        \o serializePairs(msg.data, keysInOrder(DOMAIN msg.data))

\* the tokens that successive std::getline(iss, token, '|') calls deliver
RECURSIVE getlines(_)
getlines(str) ==
    IF Len(str) = 0 THEN <<>>
    ELSE LET pos == find(str, "|")
         IN IF pos = 0 THEN <<str>>
            ELSE <<SubSeq(str, 1, pos - 1)>> \o getlines(SubSeq(str, pos + 1, Len(str)))

\* parse's test "value is a number": digits after an optional leading '-'
is_numeric(value) ==
    LET start_idx == IF value[1] = "-" /\ Len(value) > 1 THEN 2 ELSE 1
    IN \A i \in start_idx..Len(value) : isDigit(value[i])

\* the key-value loop of parse over the tokens from the fourth on
RECURSIVE parsePairs(_, _)
parsePairs(tokens, data) ==
    IF Len(tokens) = 0 THEN data
    ELSE LET token == tokens[1]
             pos == find(token, "=")
             key == SubSeq(token, 1, pos - 1)
             value == SubSeq(token, pos + 1, Len(token))
             full_field_name == getFullFieldName(key)
             full_value == IF Len(value) # 0 /\ ~is_numeric(value)
                           THEN getFullFieldName(value)
                           ELSE value
         IN IF pos = 0 THEN parsePairs(Tail(tokens), data)
            ELSE parsePairs(Tail(tokens),
                            [k \in DOMAIN data \cup {full_field_name} |->
                                IF k = full_field_name THEN full_value ELSE data[k]])

InvalidMessageFormat ==
    <<"I", "n", "v", "a", "l", "i", "d", " ", "m", "e", "s", "s", "a", "g", "e", " ", "f", "o", "r", "m", "a", "t">>

\* ProtocolMessage::parse. std::stoi throws on a first token that does not
\* start with a digit (stoi = -1 here); the handler of the exception turns the
\* message into an ERROR_MSG.
parse(message) ==
    LET tokens == getlines(message)
        threw == Len(tokens) >= 1 /\ stoi(tokens[1]) = -1
        type == IF Len(tokens) >= 1 THEN stoi(tokens[1]) ELSE PING
        player_id == IF Len(tokens) >= 2 THEN tokens[2] ELSE <<>>
        room_id == IF Len(tokens) >= 3 THEN tokens[3] ELSE <<>>
        rest == IF Len(tokens) >= 4 THEN SubSeq(tokens, 4, Len(tokens)) ELSE <<>>
    IN IF threw
       THEN WireMsg(ERROR_MSG, <<>>, <<>>,
                    [k \in {<<"e", "r", "r", "o", "r">>} |-> InvalidMessageFormat])
       ELSE WireMsg(type, player_id, room_id, parsePairs(rest, EmptyMap))

\* Messages drawn for the round trip: keys and values without '|' and LF, keys
\* without '='; among them full names, compact codes, numbers and plain text
WireKeys == { <<"h">>, <<"h", "a", "n", "d">>, <<"x">> }

WireValues ==
    { <<>>, <<"1">>, <<"-", "1">>, <<"-">>, <<"x">>, <<"o", "k">>,
      <<"s", "u", "c", "c", "e", "s", "s">> }

MaxPairs == 2

WireMsgs ==
    { WireMsg(type, player_id, room_id, data) :
        type \in {PING, 108}, player_id \in {<<>>, <<"a">>},
        room_id \in {<<>>, <<"R">>},
        data \in UNION { [keys -> WireValues] :
                           keys \in { K \in SUBSET WireKeys : Cardinality(K) <= MaxPairs } } }

WireProbes == { [fn |-> "", msg |-> msg, frame |-> <<>>, parsed |-> msg] : msg \in WireMsgs }

CallSerialize ==
    /\ probe \in WireProbes
    /\ probe' = [probe EXCEPT !.fn = "serialize", !.frame = serialize(probe.msg)]
    /\ UNCHANGED <<players, socket_to_player, player_last_ping, rooms, next_room_id,
                   rooms_mutex, blocked, burned, lastReq, replies, moves, conn,
                   cleanup_players, unsent, delivered>>

CallParse ==
    /\ probe.fn = "serialize"
    /\ probe' = [probe EXCEPT !.fn = "parse", !.parsed = parse(probe.frame)]
    /\ UNCHANGED <<players, socket_to_player, player_last_ping, rooms, next_room_id,
                   rooms_mutex, blocked, burned, lastReq, replies, moves, conn,
                   cleanup_players, unsent, delivered>>

InitWire == InitServer /\ probe \in WireProbes

NextWire == CallSerialize \/ CallParse

SpecWire == InitWire /\ [][NextWire]_vars

\* C28: for every message whose keys and values hold no '|' or LF and whose
\* keys hold no '=', parse(serialize(m)) has the type, player_id, room_id and
\* data map of m, also when a key or value equals a compact code or is numeric
C28_RoundTrip ==
    (probe.fn = "parse") => (probe.parsed = probe.msg)

\* the part of the round trip that the code keeps: type, ids, and every
\* message none of whose keys and values is a compact code of the table
isCode(str) == \E i \in 1..Len(FIELD_CODE_MAP) : FIELD_CODE_MAP[i][2] = str

RoundTripOffTable ==
    (probe.fn = "parse")
        => /\ probe.parsed.type = probe.msg.type
           /\ probe.parsed.player_id = probe.msg.player_id
           /\ probe.parsed.room_id = probe.msg.room_id
           /\ ((\A k \in DOMAIN probe.msg.data :
                    ~isCode(k) /\ ~isCode(probe.msg.data[k]))
               => (probe.parsed.data = probe.msg.data))

\* ---------------------------------------------------------------------
\* Writers of one client socket. Three threads call send() on the socket of
\* player "a" and none of them takes a lock for it: a's own worker (reply
\* loop), the worker of another client (broadcastToRoom) and the heartbeat
\* supervisor. send() returns -1, the full length, or a shorter count; every
\* call site logs a short count at most and goes on to its next frame.
\* probe.wire is the byte stream of the socket, probe.todo the frames each
\* writer has still to send, probe.handed the frames passed to send() so far.
\* ---------------------------------------------------------------------

LF == "\n"

ROOM_1 == <<"R", "O", "O", "M", "_", "1">>

Str_status == <<"s", "t", "a", "t", "u", "s">>

\* the reply to PING (ProtocolHelper::createPongResponse)
pong_frame == serialize(WireMsg(104, <<>>, <<>>, EmptyMap)) \o <<LF>>

\* the notice of b's arrival as broadcastToRoom sends it to a
joined_frame ==
    serialize(WireMsg(101, <<"b">>, ROOM_1,
        (<<"b", "r", "o", "a", "d", "c", "a", "s", "t", "_", "t", "y", "p", "e">>
            :> <<"r", "o", "o", "m", "_", "n", "o", "t", "i", "f", "i", "c", "a",
                 "t", "i", "o", "n">>)
        @@ (<<"j", "o", "i", "n", "e", "d", "_", "p", "l", "a", "y", "e", "r">>
            :> <<"b">>))) \o <<LF>>

\* the two frames of the supervisor for the remaining player of a timed-out game
game_over_frame ==
    serialize(WireMsg(112, <<"a">>, ROOM_1,
        (<<"w", "i", "n", "n", "e", "r">> :> <<"a">>)
        @@ (<<"r", "e", "a", "s", "o", "n">>
            :> <<"o", "p", "p", "o", "n", "e", "n", "t", "_", "d", "i", "s", "c",
                 "o", "n", "n", "e", "c", "t">>)
        @@ (Str_status :> <<"g", "a", "m", "e", "_", "o", "v", "e", "r">>))) \o <<LF>>

room_left_frame ==
    serialize(WireMsg(102, <<"a">>, <<>>, (Str_status :> <<"l", "e", "f", "t">>)))
        \o <<LF>>

Writers == {"worker", "other", "supervisor"}

SendProbe ==
    [fn |-> "send", wire |-> <<>>, handed |-> {},
     todo |-> [w \in Writers |->
                 CASE w = "worker" -> <<pong_frame>>
                   [] w = "other" -> <<joined_frame>>
                   [] w = "supervisor" -> <<game_over_frame, room_left_frame>>]]

\* what a call send(fd, buf, len, MSG_NOSIGNAL) can return: failure, a short
\* count (one byte, or all but the last), or len
SendResults(len) == {-1, 1, len - 1, len}

\* the stream after the call: the first bytes_sent bytes of buf are appended
send(wire, buf, bytes_sent) ==
    IF bytes_sent < 0 THEN wire ELSE wire \o SubSeq(buf, 1, bytes_sent)

\* writer w makes its next send call, which returns bytes_sent
SendNext(w) ==
    /\ probe.fn = "send"
    /\ Len(probe.todo[w]) > 0
    /\ \E bytes_sent \in SendResults(Len(probe.todo[w][1])) :
          probe' = [probe EXCEPT !.wire = send(@, probe.todo[w][1], bytes_sent),
                                 !.handed = @ \cup {probe.todo[w][1]},
                                 !.todo[w] = Tail(@)]
    /\ UNCHANGED <<players, socket_to_player, player_last_ping, rooms, next_room_id,
                   rooms_mutex, blocked, burned, lastReq, replies, moves, conn,
                   cleanup_players, unsent, delivered>>

\* reply loop of the socket's own worker
SendReply == SendNext("worker")

\* broadcastToRoom called by another client's worker
SendBroadcast == SendNext("other")

\* heartbeatMonitorLoop notifying the remaining player
SendTimeoutNotice == SendNext("supervisor")

InitSend == InitServer /\ probe = SendProbe

NextSend == SendReply \/ SendBroadcast \/ SendTimeoutNotice

SpecSend == InitSend /\ [][NextSend]_vars

\* the stream is a concatenation of frames out of the given set
RECURSIVE wholeFrames(_, _)
wholeFrames(wire, frames) ==
    IF Len(wire) = 0 THEN TRUE
    ELSE LET pos == find(wire, LF)
         IN /\ pos # 0
            /\ SubSeq(wire, 1, pos) \in frames
            /\ wholeFrames(SubSeq(wire, pos + 1, Len(wire)), frames)

\* C27: the bytes written to a client socket by its own worker, by other
\* workers and by the supervisor form a concatenation of whole serialized
\* frames; no frame is truncated or has bytes of another frame inside it
C27_WholeFrames ==
    (probe.fn = "send") => wholeFrames(probe.wire, probe.handed)

\* sends that return their full length or fail leave whole frames only
FullSendsWholeFrames ==
    [][(probe.fn = "send" /\ wholeFrames(probe.wire, probe.handed)
            /\ Len(probe'.wire) - Len(probe.wire)
                   \in {0} \cup {Len(f) : f \in probe'.handed})
        => wholeFrames(probe'.wire, probe'.handed)]_vars

\* ---------------------------------------------------------------------
\* Shutdown of the heartbeat supervisor. Two threads: the one that calls
\* NetworkManager::stop() ("main") and the one that runs heartbeatMonitorLoop
\* ("monitor"). probe holds the two atomic flags, the owner of heartbeat_mutex
\* ("" when free), the position of each thread and the number of times the
\* wait has ended with no notification. The body of an iteration of the loop
\* is one step. A time-out and a spurious wake-up can happen at any moment of
\* the wait and no run has to contain one.
\* ---------------------------------------------------------------------

MaxWakes == 3

StopProbe ==
    [fn |-> "stop", running |-> TRUE, heartbeat_running |-> TRUE,
     heartbeat_mutex |-> "", main |-> "run", monitor |-> "while",
     timed_out |-> FALSE, wakes |-> 0, accept |-> "accept"]

StopStep(next) ==
    /\ probe.fn = "stop"
    /\ probe' = next
    /\ UNCHANGED <<players, socket_to_player, player_last_ping, rooms, next_room_id,
                   rooms_mutex, blocked, burned, lastReq, replies, moves, conn,
                   cleanup_players, unsent, delivered>>

\* stop(): running is set, so it is cleared and stopHeartbeatMonitor is entered
StopBegin ==
    /\ probe.main = "run"
    /\ probe.running
    /\ StopStep([probe EXCEPT !.running = FALSE, !.main = "stopHeartbeatMonitor"])

\* stopHeartbeatMonitor: returns at once when the flag is clear, else clears it
StopClearFlag ==
    /\ probe.main = "stopHeartbeatMonitor"
    /\ StopStep(IF ~probe.heartbeat_running
                THEN [probe EXCEPT !.main = "close"]
                ELSE [probe EXCEPT !.heartbeat_running = FALSE, !.main = "lock"])

\* std::lock_guard<std::mutex> lock(heartbeat_mutex)
StopLock ==
    /\ probe.main = "lock"
    /\ probe.heartbeat_mutex = ""
    /\ StopStep([probe EXCEPT !.heartbeat_mutex = "main", !.main = "notify"])

\* heartbeat_cv.notify_one(): a thread that waits is woken, otherwise no effect
StopNotify ==
    /\ probe.main = "notify"
    /\ StopStep([probe EXCEPT !.main = "unlock",
                              !.monitor = IF @ = "waiting" THEN "relock" ELSE @])

\* end of the block that holds the lock_guard
StopUnlock ==
    /\ probe.main = "unlock"
    /\ StopStep([probe EXCEPT !.heartbeat_mutex = "", !.main = "join"])

\* heartbeat_monitor_thread.join() returns when the thread function has returned
StopJoin ==
    /\ probe.main = "join"
    /\ probe.monitor = "done"
    /\ StopStep([probe EXCEPT !.main = "close"])

\* stop() closes the server socket and cleans up
StopClose ==
    /\ probe.main = "close"
    /\ StopStep([probe EXCEPT !.main = "stopped"])

\* run(): accept() fails on the closed server socket and the loop ends
AcceptExit ==
    /\ probe.accept = "accept"
    /\ probe.main = "stopped"
    /\ StopStep([probe EXCEPT !.accept = "exited"])

\* while (heartbeat_running.load())
MonitorWhile ==
    /\ probe.monitor = "while"
    /\ StopStep([probe EXCEPT !.monitor = IF probe.heartbeat_running THEN "body" ELSE "done"])

\* the try block of one iteration: time-outs and clean-ups
MonitorBody ==
    /\ probe.monitor = "body"
    /\ StopStep([probe EXCEPT !.monitor = "lock"])

\* std::unique_lock<std::mutex> lock(heartbeat_mutex), and the re-acquisition
\* of the mutex by a wait that has ended
MonitorLock ==
    /\ probe.monitor \in {"lock", "relock"}
    /\ probe.heartbeat_mutex = ""
    /\ StopStep([probe EXCEPT !.heartbeat_mutex = "monitor",
                              !.monitor = IF @ = "lock" THEN "pred" ELSE "woken"])

\* the predicate of wait_for when it never holds: a wait with no predicate
wait_pred_none(heartbeat_running) == FALSE

\* the predicate handed to wait_for: [this] { return !heartbeat_running.load(); }
wait_pred(heartbeat_running) == ~heartbeat_running

\* wait_for tests the predicate with the mutex held; when it does not hold the
\* thread releases the mutex and starts to wait in one atomic step
MonitorPred ==
    /\ probe.monitor = "pred"
    /\ StopStep(IF wait_pred(probe.heartbeat_running)
                THEN [probe EXCEPT !.monitor = "unlock"]
                ELSE [probe EXCEPT !.monitor = "waiting", !.heartbeat_mutex = "",
                                   !.timed_out = FALSE])

\* the interval heartbeat_check_interval runs out during the wait
MonitorTimeout ==
    /\ probe.monitor = "waiting"
    /\ probe.wakes < MaxWakes
    /\ StopStep([probe EXCEPT !.monitor = "relock", !.timed_out = TRUE,
                              !.wakes = @ + 1])

\* the wait ends with neither a notification nor a time-out
MonitorSpurious ==
    /\ probe.monitor = "waiting"
    /\ probe.wakes < MaxWakes
    /\ StopStep([probe EXCEPT !.monitor = "relock", !.wakes = @ + 1])

\* wait_for after the wait: on a time-out it returns, otherwise it tests the
\* predicate again
MonitorWoken ==
    /\ probe.monitor = "woken"
    /\ StopStep([probe EXCEPT !.monitor = IF probe.timed_out THEN "unlock" ELSE "pred"])

\* the unique_lock goes out of scope at the end of the iteration
MonitorUnlock ==
    /\ probe.monitor = "unlock"
    /\ StopStep([probe EXCEPT !.heartbeat_mutex = "", !.monitor = "while"])

InitStop == InitServer /\ probe = StopProbe

MonitorSteps ==
    MonitorWhile \/ MonitorBody \/ MonitorLock \/ MonitorPred \/ MonitorWoken
        \/ MonitorUnlock

NextStop ==
    \/ StopBegin
    \/ StopClearFlag
    \/ StopLock
    \/ StopNotify
    \/ StopUnlock
    \/ StopJoin
    \/ StopClose
    \/ AcceptExit
    \/ MonitorWhile
    \/ MonitorBody
    \/ MonitorLock
    \/ MonitorPred
    \/ MonitorTimeout
    \/ MonitorSpurious
    \/ MonitorWoken
    \/ MonitorUnlock

\* Both threads keep running; stop() may never be called, and the wait may
\* never time out or end spuriously
SpecStop ==
    /\ InitStop
    /\ [][NextStop]_vars
    /\ WF_vars(StopClearFlag \/ StopLock \/ StopNotify \/ StopUnlock \/ StopJoin
                 \/ StopClose \/ AcceptExit)
    /\ WF_vars(MonitorSteps)

\* the supervisor waits although stop() has passed its notification
LostWakeup ==
    /\ probe.fn = "stop"
    /\ probe.monitor = "waiting"
    /\ probe.main = "join"

\* C29: once stop() has cleared the running flags, the supervisor leaves its
\* timed wait with no need of the time-out and terminates, and the join in
\* stop() returns; the notification is never lost between the supervisor's
\* test of the flag and its entry into the wait
C29_StopWakes ==
    /\ [](~LostWakeup)
    /\ (probe.fn = "stop" /\ ~probe.heartbeat_running)
          ~> (probe.monitor = "done" /\ probe.main \in {"close", "stopped"})

\* stop() has just notified a supervisor that was in its wait and that no
\* time-out and no spurious wake-up has ever woken
C29_Witness ==
    /\ probe.fn = "stop"
    /\ probe.main = "unlock"
    /\ probe.monitor = "relock"
    /\ probe.wakes = 0

\* ---------------------------------------------------------------------
\* The read loop of NetworkManager::handleClient. A byte string is kept as a
\* sequence of runs [c, n] (n >= 1 bytes equal to c, neighbouring runs with
\* different c), so that the sizes of the code are the sizes of the model.
\* probe.sent is what the client writes, probe.stream the part of it not yet
\* received, probe.message_buffer the worker's buffer, probe.routed the lines
\* handed to processMessage, and probe.closed says why the loop was left.
\* ---------------------------------------------------------------------

BUFFER_SIZE == 4096

MAX_MESSAGE_SIZE == 8192

CR == "\r"

NUL == "NUL"

Run(c, n) == <<[c |-> c, n |-> n]>>

\* std::string::size
RECURSIVE size(_)
size(s) == IF Len(s) = 0 THEN 0 ELSE s[1].n + size(Tail(s))

\* operator+= of two strings
append(s, t) ==
    IF Len(s) = 0 THEN t
    ELSE IF Len(t) = 0 THEN s
    ELSE IF s[Len(s)].c = t[1].c
         THEN SubSeq(s, 1, Len(s) - 1) \o Run(t[1].c, s[Len(s)].n + t[1].n) \o Tail(t)
         ELSE s \o t

\* substr(0, k)
RECURSIVE take(_, _)
take(s, k) ==
    IF k <= 0 \/ Len(s) = 0 THEN <<>>
    ELSE IF s[1].n <= k THEN <<s[1]>> \o take(Tail(s), k - s[1].n)
    ELSE Run(s[1].c, k)

\* erase(0, k)
RECURSIVE erase(_, _)
erase(s, k) ==
    IF k <= 0 \/ Len(s) = 0 THEN s
    ELSE IF s[1].n <= k THEN erase(Tail(s), k - s[1].n)
    ELSE Run(s[1].c, s[1].n - k) \o Tail(s)

\* std::string::find(c): index of the first c from 0, or npos (-1)
RECURSIVE findByte(_, _, _)
findByte(s, c, from) ==
    IF Len(s) = 0 THEN -1
    ELSE IF s[1].c = c THEN from
    ELSE findByte(Tail(s), c, from + s[1].n)

\* the bytes of a run string one by one
RECURSIVE expand(_)
expand(s) ==
    IF Len(s) = 0 THEN <<>>
    ELSE <<s[1].c>> \o expand(erase(s, 1))

\* buffer[bytes_received] = '\0' and the char* that operator+= reads: the
\* bytes received up to the first zero byte
c_str(received) ==
    IF findByte(received, NUL, 0) = -1 THEN received
    ELSE take(received, findByte(received, NUL, 0))

\* complete_message.pop_back() when its last byte is a carriage return
stripCR(complete_message) ==
    IF Len(complete_message) # 0 /\ complete_message[Len(complete_message)].c = CR
    THEN take(complete_message, size(complete_message) - 1)
    ELSE complete_message

\* processMessage answers the line with disconnect=true: the test of
\* MessageValidator on the line up to its first separator
refusedLine(complete_message) ==
    LET pos == findByte(complete_message, "|", 0)
    IN pos = -1 \/ refused(expand(take(complete_message, pos + 1)))

\* the loop over the complete lines of the buffer; it ends when the buffer
\* holds no LF or when a line is refused and the worker tears the client down
RECURSIVE extract(_, _)
extract(message_buffer, routed) ==
    LET pos == findByte(message_buffer, LF, 0)
        complete_message == stripCR(take(message_buffer, pos))
        rest == erase(message_buffer, pos + 1)
    IN IF pos = -1
       THEN [message_buffer |-> message_buffer, routed |-> routed, refused |-> FALSE]
       ELSE IF Len(complete_message) = 0 THEN extract(rest, routed)
       ELSE IF refusedLine(complete_message)
       THEN [message_buffer |-> rest, routed |-> Append(routed, complete_message),
             refused |-> TRUE]
       ELSE extract(rest, Append(routed, complete_message))

\* a PING frame with a player_id field of n bytes, and its LF
ping(n) ==
    append(append(Run("4", 1) \o Run("|", 1), IF n = 0 THEN <<>> ELSE Run("a", n)),
           Run("|", 1)) \o Run(LF, 1)

\* The byte streams a client writes in the model: two frames below the cap,
\* an empty line between frames, a zero byte inside a frame, one frame that
\* never ends, and frames that end in CR LF
Streams ==
    { append(ping(8097), ping(200)),
      append(append(ping(0), Run(LF, 1)), ping(0)),
      Run("4", 1) \o Run("|", 1) \o Run("a", 1) \o Run(NUL, 1) \o Run("a", 1)
          \o Run("|", 1) \o Run(LF, 1) \o ping(0),
      Run("4", 1) \o Run("|", 1) \o Run("a", 8200),
      Run("4", 1) \o Run("|", 2) \o Run(CR, 1) \o Run(LF, 1) \o ping(1) }

\* the byte counts recv returns in the model, besides all that is left
ReadSizes == {1, 100, 4000, BUFFER_SIZE - 1}

RecvProbes ==
    { [fn |-> "recv", sent |-> s, stream |-> s, message_buffer |-> <<>>,
       routed |-> <<>>, closed |-> ""] : s \in Streams }

RecvStep(next) ==
    /\ probe.fn = "recv"
    /\ probe.closed = ""
    /\ probe' = next
    /\ UNCHANGED <<players, socket_to_player, player_last_ping, rooms, next_room_id,
                   rooms_mutex, blocked, burned, lastReq, replies, moves, conn,
                   cleanup_players, unsent, delivered>>

\* one iteration of the read loop: recv returns bytes_received bytes, they
\* are appended to the buffer, the size is tested, the lines are taken out
Recv(bytes_received) ==
    LET message_buffer == append(probe.message_buffer,
                                 c_str(take(probe.stream, bytes_received)))
        lines == extract(message_buffer, probe.routed)
    IN /\ bytes_received >= 1
       /\ bytes_received <= BUFFER_SIZE - 1
       /\ bytes_received <= size(probe.stream)
       /\ RecvStep(IF size(message_buffer) > MAX_MESSAGE_SIZE
                   THEN [probe EXCEPT !.stream = erase(@, bytes_received),
                                      !.message_buffer = message_buffer,
                                      !.closed = "size"]
                   ELSE [probe EXCEPT !.stream = erase(@, bytes_received),
                                      !.message_buffer = lines.message_buffer,
                                      !.routed = lines.routed,
                                      !.closed = IF lines.refused THEN "violation"
                                                 ELSE ""])

\* the client has closed its end and all its bytes were read: recv returns 0
RecvEnd ==
    /\ size(probe.stream) = 0
    /\ RecvStep([probe EXCEPT !.closed = "peer"])

InitFraming == InitServer /\ probe \in RecvProbes

NextFraming ==
    \/ \E bytes_received \in ReadSizes \cup {size(probe.stream)} : Recv(bytes_received)
    \/ RecvEnd

SpecFraming == InitFraming /\ [][NextFraming]_vars

\* the LF-terminated lines of a byte string, a closing CR taken off, and what
\* follows its last LF
RECURSIVE linesOf(_)
linesOf(s) ==
    LET pos == findByte(s, LF, 0)
    IN IF pos = -1 THEN <<>>
       ELSE <<stripCR(take(s, pos))>> \o linesOf(erase(s, pos + 1))

RECURSIVE unterminated(_)
unterminated(s) ==
    IF findByte(s, LF, 0) = -1 THEN s ELSE unterminated(erase(s, findByte(s, LF, 0) + 1))

isPrefix(s, t) == Len(s) <= Len(t) /\ SubSeq(t, 1, Len(s)) = s

\* C30: each LF-terminated line of the client's bytes is passed to the router
\* once and in order whatever the split into reads, and the client is cut off
\* for size only when a single unterminated frame exceeds the cap of 8 KiB
C30_Framing ==
    (probe.fn = "recv")
        => /\ isPrefix(probe.routed, linesOf(probe.sent))
           /\ ((probe.closed = "peer") => (probe.routed = linesOf(probe.sent)))
           /\ ((probe.closed = "size")
                 => (\/ size(unterminated(probe.sent)) > MAX_MESSAGE_SIZE
                     \/ \E i \in 1..Len(linesOf(probe.sent)) :
                           size(linesOf(probe.sent)[i]) > MAX_MESSAGE_SIZE))

nonEmpty(lines) == SelectSeq(lines, LAMBDA l : Len(l) # 0)

\* what the loop keeps: of a stream with no zero byte that is no longer than
\* the cap, every line that is not empty is routed once and in order, and the
\* client is not cut off for size
FramingWithinCap ==
    (/\ probe.fn = "recv"
     /\ findByte(probe.sent, NUL, 0) = -1
     /\ size(probe.sent) <= MAX_MESSAGE_SIZE)
        => /\ isPrefix(probe.routed, nonEmpty(linesOf(probe.sent)))
           /\ ((probe.closed = "peer") => (probe.routed = nonEmpty(linesOf(probe.sent))))
           /\ probe.closed # "size"

\* an unterminated frame above the cap is cut off whatever the split into reads
OversizeCut ==
    (/\ probe.fn = "recv"
     /\ findByte(probe.sent, LF, 0) = -1
     /\ size(probe.stream) = 0)
        => (probe.closed = "size")

\* C31: every entry socket -> name of the socket map names a record that
\* exists, is connected and holds that socket, after any sequence of CONNECT,
\* RECONNECT, teardown, ping time-out and grace expiry
C31_SocketMap ==
    \A s \in DOMAIN socket_to_player :
        LET n == socket_to_player[s]
        IN /\ n \in DOMAIN players
           /\ players[n].connected
           /\ players[n].socket_fd = s

\* a worker ends a connectPlayer whose name another worker has registered
\* since its find
LateEmplace ==
    \E s \in Sockets : /\ conn[s] # ""
                       /\ conn[s] \in DOMAIN players
                       /\ conn'[s] = ""

\* what the registry keeps: every step but the late insertion of a racing
\* connectPlayer preserves the property of the socket map
SocketMapKeptOutsideRace ==
    [][(C31_SocketMap /\ ~LateEmplace) => C31_SocketMap']_vars

\* C38: every connected record is reachable from the socket map and no two
\* connected records hold the same socket, also after a CONNECT or RECONNECT
\* on a socket that is already bound; marking a player disconnected erases no
\* other player's entry of the socket map
C38_ConnectedReachable ==
    /\ \A n \in DOMAIN players :
          players[n].connected
              => (/\ players[n].socket_fd \in DOMAIN socket_to_player
                  /\ socket_to_player[players[n].socket_fd] = n)
    /\ \A n, m \in DOMAIN players :
          (players[n].connected /\ players[m].connected
              /\ players[n].socket_fd = players[m].socket_fd) => (n = m)

\* C40: the teardown of a socket leaves alone every player who is bound to
\* another socket, in particular a player P who was marked temporarily
\* disconnected by a ping time-out while the socket stayed open and who has
\* come back on another socket: P stays connected with the new socket, its
\* entry of the socket map stays, and no PLAYER_DISCONNECTED names P
C40_OldSocketTeardown ==
    [][\A P \in DOMAIN players :
          (/\ lastReq'.type = "close"
           /\ vars' # vars
           /\ players[P].connected
           /\ players[P].socket_fd # lastReq'.socket
           /\ players[P].socket_fd \in DOMAIN socket_to_player
           /\ socket_to_player[players[P].socket_fd] = P)
          => (/\ P \in DOMAIN players'
              /\ players'[P] = players[P]
              /\ players[P].socket_fd \in DOMAIN socket_to_player'
              /\ socket_to_player'[players[P].socket_fd] = P
              /\ \A i \in 1..Len(replies') :
                    replies'[i].type = "PLAYER_DISCONNECTED"
                        => replies'[i].data.disconnected_player # P)]_vars

\* C35: a player name is in the member list of at most one room, and that
\* room is the room_id of the player's record; a JOIN_ROOM of a player who is
\* a member of a room adds the player to no second room
C35_OneRoom ==
    \A n \in Names : \A r1 \in DOMAIN rooms :
        inVector(rooms[r1].players, n)
            => (/\ \A r2 \in DOMAIN rooms : inVector(rooms[r2].players, n) => (r2 = r1)
                /\ n \in DOMAIN players => players[n].room_id = r1)

\* the names of the players of a game engine, in order
enginePlayers(g) == [i \in 1..Len(g.players) |-> g.players[i].playerId]

\* C33: while the game of a room waits for players, and when a START_GAME
\* starts it, the players of the game engine are exactly the members of the
\* room, so no card and no turn goes to a player who has left the room
C33_EngineIsRoom ==
    [][/\ \A r \in DOMAIN rooms' :
            (rooms'[r].gameLogic.gameState = "WAITING_FOR_PLAYERS")
                => (SeqToSet(enginePlayers(rooms'[r].gameLogic))
                        = SeqToSet(rooms'[r].players))
       /\ AcceptedStep("START_GAME")
            => (\A r \in DOMAIN rooms' :
                   (r \in DOMAIN rooms /\ rooms'[r].gameLogic # rooms[r].gameLogic)
                       => (/\ SeqToSet(enginePlayers(rooms'[r].gameLogic))
                                = SeqToSet(rooms'[r].players)
                           /\ inVector(rooms'[r].players,
                                       getCurrentPlayer(rooms'[r].gameLogic))))]_vars

\* the room a served JOIN_ROOM seats its sender in, "" when it seats it nowhere
joinedRoom ==
    IF Len(replies') > 0 /\ replies'[1].type = "ROOM_JOINED"
    THEN players'[senderOf(lastReq')].room_id ELSE ""

\* C37: a join that fails (the room is full, the player is a member already,
\* or the game is not waiting for players) changes neither the member list of
\* the room nor the player list of its game engine
C37_FailedJoinKeepsRoom ==
    [][ServedStep("JOIN_ROOM")
         => (\A r \in DOMAIN rooms :
                (r # joinedRoom)
                    => (/\ r \in DOMAIN rooms'
                        /\ rooms'[r].players = rooms[r].players
                        /\ enginePlayers(rooms'[r].gameLogic)
                              = enginePlayers(rooms[r].gameLogic)))]_vars

(***************************************************************************)
(* The heartbeat supervisor in two steps.  One iteration of                *)
(* heartbeatMonitorLoop lists the expired players first and cleans them up *)
(* one by one afterwards; the workers serve requests in between.           *)
(***************************************************************************)
\* the keys of std::map<std::string, Player> in iteration order
PlayerOrder == <<"a", "b", "c">>

\* PlayerManager::getDisconnectedPlayersForCleanup, for the set of players
\* whose disconnection_start is older than the reconnection window
getDisconnectedPlayersForCleanup(pm, expired) ==
    LET listed(n) == /\ n \in DOMAIN pm.players
                     /\ pm.players[n].temporarily_disconnected
                     /\ n \in expired
    IN SelectSeq(PlayerOrder, listed)

\* the top of an iteration: the supervisor computes cleanup_players
ExpiryList ==
    /\ probe = NoProbe
    /\ cleanup_players = <<>>
    /\ \E expired \in SUBSET Names :
          /\ getDisconnectedPlayersForCleanup(Cur.pm, expired) # <<>>
          /\ cleanup_players' = getDisconnectedPlayersForCleanup(Cur.pm, expired)
    /\ UNCHANGED <<players, socket_to_player, player_last_ping, rooms, next_room_id,
                   rooms_mutex, blocked, burned, lastReq, replies, moves, probe, conn,
                   unsent, delivered>>

\* one round of the loop over cleanup_players
ExpiryRemove ==
    /\ probe = NoProbe
    /\ cleanup_players # <<>>
    /\ rooms_mutex = 0
    /\ \E c \in {cleanupPlayer(Cur, Head(cleanup_players))} :
          /\ Install(c.st)
          /\ replies' = c.sent
    /\ lastReq' = Served(0, Request("expiry", Head(cleanup_players), <<>>))
    /\ cleanup_players' = Tail(cleanup_players)
    /\ UNCHANGED <<rooms_mutex, blocked, moves, probe, conn, unsent, delivered>>

NextExpiry ==
    \/ \E s \in Sockets, k \in 0..(MaxShuffles - 1) : StartGame(s, k)
    \/ \E c \in GameClients : Reconnect(c[1], c[2])
    \/ \E s \in Sockets : Close(s)
    \/ \E n \in Names : PingTimeout(n)
    \/ ExpiryList
    \/ ExpiryRemove

SpecExpiry == InitRoom /\ [][NextExpiry]_vars

\* C36: the supervisor destroys a player's record only if the player is still
\* temporarily disconnected when it is removed, so a player whose RECONNECT was
\* answered with CONNECTED is not removed, and no member is told GAME_OVER for
\* an opponent who has reconnected
C36_ExpiryAfterReconnect ==
    [][(lastReq'.type = "expiry" /\ vars' # vars /\ lastReq'.name \in DOMAIN players)
        => (/\ players[lastReq'.name].temporarily_disconnected
            /\ ~players[lastReq'.name].connected)]_vars

(***************************************************************************)
(* handleClient in two steps.  A worker takes the responses of             *)
(* processMessage and writes them one by one afterwards, holding no lock;  *)
(* the other workers serve their clients in between.                       *)
(***************************************************************************)
MaxDeliverMoves == 2   \* requests accepted in a run of the two-step workers

\* the worker of client_socket gets the responses to one frame
Process(client_socket, msg, k) ==
    \E h \in {processMessage(Cur, msg, client_socket, k)} :
        LET accepted == ~h.threw /\ h.replies[1].type # "ERROR_MSG"
        IN /\ probe = NoProbe
           /\ rooms_mutex = 0
           /\ client_socket \notin blocked
           /\ conn[client_socket] = ""
           /\ unsent[client_socket] = <<>>
           /\ accepted => moves < (MaxMoves - MaxRoomMoves) + MaxDeliverMoves
           /\ Install(h.st)
           /\ moves' = IF accepted THEN moves + 1 ELSE moves
           /\ lastReq' = Served(client_socket, msg)
           /\ replies' = h.replies
           /\ unsent' = [unsent EXCEPT ![client_socket] = h.replies]
           /\ UNCHANGED <<rooms_mutex, blocked, probe, conn, cleanup_players, delivered>>

\* the GAME_STATE frame among frames that goes to socket, if there is one
gameStateOn(frames, socket, last) ==
    LET states == {f \in frames : f.socket = socket /\ f.msg.type = "GAME_STATE"}
    IN IF states = {} THEN last ELSE (CHOOSE f \in states : TRUE).msg

\* one iteration of the loop over the responses
WriteResponse(client_socket) ==
    /\ probe = NoProbe
    /\ unsent[client_socket] # <<>>
    /\ \E frames \in {sendResponse(Cur.pm, client_socket, Head(unsent[client_socket]), 1)} :
          delivered' = [s \in Sockets |-> gameStateOn(frames, s, delivered[s])]
    /\ unsent' = [unsent EXCEPT ![client_socket] = Tail(@)]
    /\ UNCHANGED <<players, socket_to_player, player_last_ping, rooms, next_room_id,
                   rooms_mutex, blocked, burned, lastReq, replies, moves, probe, conn,
                   cleanup_players>>

NextDeliver ==
    \/ \E s \in Sockets, k \in 0..(MaxShuffles - 1) :
          Process(s, Request("START_GAME", "", <<>>), k)
    \/ \E s \in Sockets : \E cards \in PlayInputs(s) :
          Process(s, Request("PLAY_CARDS", "", cards), 0)
    \/ \E s \in Sockets : Process(s, Request("PICKUP_PILE", "", <<>>), 0)
    \/ \E s \in Sockets : WriteResponse(s)

SpecDeliver == InitRoom /\ [][NextDeliver]_vars

\* no worker holds responses it has not written yet
noneInFlight == \A s \in Sockets : unsent[s] = <<>>

\* the GAME_STATE that shows member n the game of room r as it is now
currentView(r, n) ==
    createGameStateResponse(n, r, getGameStateForPlayer(Cur, r, n))

\* C32: when no request is in flight, the last GAME_STATE written to every
\* connected member of a room with an active game shows the game as it is now,
\* so a snapshot taken before a move is never delivered after the snapshot of
\* that move
C32_LatestSnapshot ==
    noneInFlight
        => (\A r \in DOMAIN rooms :
               isGameActive(rooms[r])
                   => (\A i \in 1..Len(rooms[r].players) :
                          LET n == rooms[r].players[i]
                          IN (hasSocket(Cur.pm, n)
                                 /\ getGameStateForPlayer(Cur, r, n).valid)
                                => (delivered[players[n].socket_fd]
                                        = currentView(r, n))))

(***************************************************************************)
(* Lock order.  The workers and the heartbeat supervisor call the public   *)
(* functions of PlayerManager and RoomManager holding no lock; a call is   *)
(* the sequence of lock and unlock operations its std::lock_guards make.   *)
(***************************************************************************)
\* the registry mutexes, in the order in which they may be nested
Mutexes == <<"rooms_mutex", "players_mutex", "heartbeat_mutex">>

rank(m) == CHOOSE i \in 1..Len(Mutexes) : Mutexes[i] = m

LockOp(m) == [op |-> "lock", mutex |-> m]

UnlockOp(m) == [op |-> "unlock", mutex |-> m]

\* a scope that opens with std::lock_guard<std::mutex> on m
lock_guard(m, body) == <<LockOp(m)>> \o body \o <<UnlockOp(m)>>

\* the functions of PlayerManager that lock players_mutex and nothing else:
\* getPlayerIdFromSocket, getPlayer, setPlayerRoom, getPlayerRoom,
\* clearPlayerRoom, getPlayersInRoom, markPlayerTemporarilyDisconnected,
\* removeSocketMapping, getDisconnectedPlayersForCleanup
playersOnly == lock_guard("players_mutex", <<>>)

\* updateLastPing (and connectPlayer, which locks nothing else)
updateLastPing_locks == lock_guard("heartbeat_mutex", <<>>)

removePlayer_locks == lock_guard("players_mutex", lock_guard("heartbeat_mutex", <<>>))

reconnectPlayer_locks == lock_guard("players_mutex", updateLastPing_locks)

getTimedOutPlayers_inverted ==
    lock_guard("heartbeat_mutex", lock_guard("players_mutex", <<>>))

getTimedOutPlayers_locks ==
    lock_guard("players_mutex", lock_guard("heartbeat_mutex", <<>>))

\* createRoom, getRoomPlayers, withRoom and its callers in GameManager
roomsOnly == lock_guard("rooms_mutex", <<>>)

\* joinRoom calls PlayerManager::setPlayerRoom under rooms_mutex
joinRoom_locks == lock_guard("rooms_mutex", playersOnly)

\* leaveRoom calls getPlayer and clearPlayerRoom under rooms_mutex
leaveRoom_locks == lock_guard("rooms_mutex", playersOnly \o playersOnly)

\* RoomManager::playCards and pickupPile call getPlayerRoom under rooms_mutex
playCards_locks == lock_guard("rooms_mutex", playersOnly)

\* joinAnyAvailableRoom calls joinRoom and createRoom under rooms_mutex
joinAnyAvailableRoom_locks ==
    lock_guard("rooms_mutex", joinRoom_locks \o roomsOnly \o joinRoom_locks)

\* handlePlayerTimeout: getPlayerRoom first, clearPlayerRoom under rooms_mutex
handlePlayerTimeout_locks == playersOnly \o lock_guard("rooms_mutex", playersOnly)

\* what MessageHandler and NetworkManager::handleClient call
WorkerCalls ==
    {playersOnly, updateLastPing_locks, reconnectPlayer_locks, roomsOnly,
     leaveRoom_locks, playCards_locks, joinAnyAvailableRoom_locks}

\* what NetworkManager::heartbeatMonitorLoop calls
SupervisorCalls ==
    {getTimedOutPlayers_locks, playersOnly, roomsOnly, handlePlayerTimeout_locks,
     removePlayer_locks}

Threads == {"worker1", "worker2", "supervisor"}

CallsOf(t) == IF t = "supervisor" THEN SupervisorCalls ELSE WorkerCalls

LockProbe ==
    [fn |-> "lock",
     script |-> [t \in Threads |-> <<>>],
     held |-> [t \in Threads |-> <<>>]]

holds(t, m) == \E i \in 1..Len(probe.held[t]) : probe.held[t][i] = m

\* the mutex thread t is about to lock, "" when it is not at a lock
requested(t) ==
    IF probe.script[t] # <<>> /\ Head(probe.script[t]).op = "lock"
    THEN Head(probe.script[t]).mutex ELSE ""

LockStep(next) ==
    /\ probe.fn = "lock"
    /\ probe' = next
    /\ UNCHANGED <<players, socket_to_player, player_last_ping, rooms, next_room_id,
                   rooms_mutex, blocked, burned, lastReq, replies, moves, conn,
                   cleanup_players, unsent, delivered>>

\* thread t, holding no lock, calls a function of a manager
CallManager(t, script) ==
    /\ probe.script[t] = <<>>
    /\ LockStep([probe EXCEPT !.script[t] = script, !.held[t] = <<>>])

\* std::mutex::lock.  A mutex another thread holds makes the caller wait; on a
\* mutex the caller holds itself the behaviour is undefined: the lock goes
\* through, or std::system_error unwinds the call, or the thread never moves
\* again (no step)
LockMutex(t, outcome) ==
    /\ requested(t) # ""
    /\ \A u \in Threads \ {t} : ~holds(u, requested(t))
    /\ IF holds(t, requested(t)) /\ outcome = "throw"
       THEN LockStep([probe EXCEPT !.script[t] = <<>>, !.held[t] = <<>>])
       ELSE /\ holds(t, requested(t)) => (outcome = "proceed")
            /\ LockStep([probe EXCEPT !.script[t] = Tail(@),
                                      !.held[t] = Append(@, requested(t))])

\* the end of the scope of a lock_guard: the lock taken last is released
UnlockMutex(t) ==
    /\ probe.script[t] # <<>>
    /\ Head(probe.script[t]).op = "unlock"
    /\ LockStep([probe EXCEPT !.script[t] = Tail(@),
                              !.held[t] = SubSeq(@, 1, Len(@) - 1)])

InitLock == InitServer /\ probe = LockProbe

NextLock ==
    \/ \E t \in Threads : \E script \in CallsOf(t) : CallManager(t, script)
    \/ \E t \in Threads, outcome \in JoinOutcomes : LockMutex(t, outcome)
    \/ \E t \in Threads : UnlockMutex(t)

SpecLock == InitLock /\ [][NextLock]_vars

\* thread t waits for a mutex that thread u holds
waitsFor(t, u) == t # u /\ requested(t) # "" /\ holds(u, requested(t))

\* C39: a thread that requests a registry mutex holds no mutex that comes
\* later in the order rooms_mutex, players_mutex, heartbeat_mutex, and no
\* threads wait for each other's locks in a circle
C39_LockOrder ==
    (probe.fn = "lock")
        => (/\ \A t \in Threads :
                  (requested(t) # "")
                      => (\A i \in 1..Len(probe.held[t]) :
                             rank(probe.held[t][i]) <= rank(requested(t)))
            /\ \A t, u \in Threads :
                  waitsFor(t, u)
                      => (/\ ~waitsFor(u, t)
                          /\ \A v \in Threads : ~(waitsFor(u, v) /\ waitsFor(v, t))))

\* a worker holding rooms_mutex waits for players_mutex, which the supervisor
\* holds while it requests heartbeat_mutex, which the other worker holds
C39_Witness ==
    /\ probe.fn = "lock"
    /\ \E t, v \in Threads \ {"supervisor"} :
          /\ probe.held[t] = <<"rooms_mutex">>
          /\ requested(t) = "players_mutex"
          /\ probe.held["supervisor"] = <<"players_mutex">>
          /\ requested("supervisor") = "heartbeat_mutex"
          /\ probe.held[v] = <<"heartbeat_mutex">>

\* the handler accepted the request
acceptedBy(h) == ~h.threw /\ h.replies[1].type # "ERROR_MSG"

\* the cards fields a player can name: held cards, alone or in pairs, or RESERVE
movesOf(g, player_name) ==
    LET hand == getPlayerHand(g, player_name)
        held == {toString(hand[i]) : i \in 1..Len(hand)}
    IN {<<t>> : t \in held \cup {<<"R", "E", "S", "E", "R", "V", "E">>}}
          \cup {<<t, u>> : t, u \in held}

\* the server accepts some PLAY_CARDS or the PICKUP_PILE of the player
canMove(g, player_name) ==
    \/ \E cards \in movesOf(g, player_name) :
          acceptedBy(handlePlayCards(Cur, cards, player_name))
    \/ acceptedBy(handlePickupPile(Cur, player_name))

\* C34: in every state with an active game the player at the turn is a member
\* of the room and has a request the server accepts, so some member of the
\* room can always move the game on
C34_TurnCanMove ==
    \A r \in DOMAIN rooms :
        isGameActive(rooms[r])
            => (/\ inVector(rooms[r].players, getCurrentPlayer(rooms[r].gameLogic))
                /\ canMove(rooms[r].gameLogic, getCurrentPlayer(rooms[r].gameLogic))
                /\ \E i \in 1..Len(rooms[r].players) :
                      canMove(rooms[r].gameLogic, rooms[r].players[i]))

====
